---- MODULE Spec2Model ----
(***************************************************************************)
(* The multi-board rendering pipeline of d2cli (src/d2cli/main.go): link   *)
(* resolution, relinking, the hierarchical renderer, the pagination        *)
(* indexer and the paginated builders, driven by Run and compile.          *)
(*                                                                         *)
(* A Go string is a sequence of tokens.  A token is "/", "." or a run of   *)
(* characters holding neither, so filepath.Ext, strings.TrimSuffix,        *)
(* filepath.Join and strings.Join are computed token by token exactly as   *)
(* the library computes them byte by byte.                                 *)
(***************************************************************************)
EXTENDS Integers, Sequences, FiniteSets, TLC

VARIABLES
    diagram,      \* the board tree: as d2lib.Compile builds it, then as compile leaves it
    delivered,    \* the board tree as d2lib.Compile delivered it
    pc,           \* "input" while the tree is being built, then "done"
    args,         \* the flags and arguments Run was given
    disk,         \* the file system: path -> bytes
    log,          \* every side effect of the invocation, in order
    doc,          \* the pages or slides of the paginated document
    resolved,     \* linkToOutput: what resolveLinks returned to compile
    frames,       \* the local variables of each resolveLinks call
    indexed,      \* pageMap, boardIdToIndex: what buildBoardIdToIndex returned
    rendered,     \* boards: what render returned to compile
    ret,          \* what compile and Run returned
    injected,     \* the one call that fails in this invocation, if any
    cancelled     \* when the context of the invocation was cancelled, if ever

vars == <<diagram, delivered, pc, args, disk, log, doc, resolved, frames,
          indexed, rendered, ret, injected, cancelled>>

-----------------------------------------------------------------------------
(* Bounds of the model. *)

MaxBoards == 2        \* boards below the root
MaxFolderOnly == 1    \* boards flagged IsFolderOnly

-----------------------------------------------------------------------------
(* strings and path/filepath *)

\* strings.Join(elems, sep)
StringsJoin(elems, sep) ==
    LET F[i \in 0..Len(elems)] ==
            IF i = 0 THEN <<>>
            ELSE IF i = 1 THEN elems[1]
            ELSE F[i - 1] \o sep \o elems[i]
    IN  F[Len(elems)]

\* strings.HasSuffix(s, suffix)
HasSuffix(s, suffix) ==
    /\ Len(s) >= Len(suffix)
    /\ SubSeq(s, Len(s) - Len(suffix) + 1, Len(s)) = suffix

\* strings.TrimSuffix(s, suffix)
TrimSuffix(s, suffix) ==
    IF HasSuffix(s, suffix) THEN SubSeq(s, 1, Len(s) - Len(suffix)) ELSE s

\* filepath.Ext(path): the suffix beginning at the final dot of the final
\* element of path; empty if there is no dot.
Ext(path) ==
    LET F[i \in 0..Len(path)] ==
            IF i = 0 THEN <<>>
            ELSE IF path[i] = "/" THEN <<>>
            ELSE IF path[i] = "." THEN SubSeq(path, i, Len(path))
            ELSE F[i - 1]
    IN  F[Len(path)]

\* The elements of a path: the runs of tokens between separators.
SplitPath_token(prev, tok) ==
    IF tok = "/" THEN Append(prev, <<>>)
    ELSE [prev EXCEPT ![Len(prev)] = Append(@, tok)]

SplitPath(path) ==
    LET F[i \in 0..Len(path)] ==
            IF i = 0 THEN <<<<>>>> ELSE SplitPath_token(F[i - 1], path[i])
    IN  F[Len(path)]

IsRooted(path) == Len(path) > 0 /\ path[1] = "/"

\* filepath.Clean, one element: empty and "." elements are dropped, ".."
\* removes the element before it.
Clean_elem(out, e, rooted) ==
    IF e = <<>> \/ e = <<".">> THEN out
    ELSE IF e = <<".", ".">>
         THEN IF Len(out) > 0 /\ out[Len(out)] # <<".", ".">>
                  THEN SubSeq(out, 1, Len(out) - 1)
              ELSE IF rooted THEN out
              ELSE Append(out, e)
    ELSE Append(out, e)

Clean_elems(elems, rooted) ==
    LET F[i \in 0..Len(elems)] ==
            IF i = 0 THEN <<>> ELSE Clean_elem(F[i - 1], elems[i], rooted)
    IN  F[Len(elems)]

Clean_joined(rooted, body) ==
    IF rooted THEN <<"/">> \o body
    ELSE IF body = <<>> THEN <<".">>
    ELSE body

\* filepath.Clean(path)
Clean(path) ==
    Clean_joined(IsRooted(path),
                 StringsJoin(Clean_elems(SplitPath(path), IsRooted(path)), <<"/">>))

\* filepath.Join(a, b): empty elements are ignored, the result is cleaned.
FilepathJoin(a, b) ==
    IF a = <<>> /\ b = <<>> THEN <<>>
    ELSE Clean(IF a = <<>> THEN b ELSE IF b = <<>> THEN a ELSE a \o <<"/">> \o b)

Base_cleaned(cleaned, elems) ==
    IF cleaned = <<"/">> THEN <<"/">> ELSE elems[Len(elems)]

\* filepath.Base(path)
Base(path) ==
    IF path = <<>> THEN <<".">>
    ELSE Base_cleaned(Clean(path), SplitPath(Clean(path)))

\* filepath.Dir(path)
Dir(path) ==
    LET F[i \in 0..Len(path)] ==
            IF i = 0 THEN <<>>
            ELSE IF path[i] = "/" THEN SubSeq(path, 1, i)
            ELSE F[i - 1]
    IN  Clean(F[Len(path)])

getFileName(path) == TrimSuffix(Base(path), Ext(path))

-----------------------------------------------------------------------------
(* d2target.Diagram, as far as main.go reads it *)

Children(d, cat) ==
    IF cat = "layers" THEN d.Layers
    ELSE IF cat = "scenarios" THEN d.Scenarios
    ELSE d.Steps

\* The shapes of a board that has content: one link to a board of the
\* tree, one link to a board the tree may lack, one URL, one shape with no
\* link.
BoardShapes ==
    << [Link |-> <<"root", ".", "layers", ".", "details">>],
       [Link |-> <<"root">>],
       [Link |-> <<"https://d2lang", ".", "com">>],
       [Link |-> <<>>] >>

Board(name) ==
    [Name |-> name, IsFolderOnly |-> FALSE, Shapes |-> BoardShapes,
     Fill |-> "white",
     Layers |-> <<>>, Scenarios |-> <<>>, Steps |-> <<>>]

\* The name of the i-th board of a category.  Names of one category are
\* distinct (they are the keys of one map of the source text); across
\* categories some are equal and some differ, and `index` is among them,
\* the name render gives the file of a board that has sub-boards.
NameAt(cat, i) ==
    IF i = 1 THEN (IF cat = "layers" THEN <<"details">>
                   ELSE IF cat = "scenarios" THEN <<"index">> ELSE <<"a">>)
    ELSE IF i = 2 THEN (IF cat = "layers" THEN <<"index">>
                        ELSE IF cat = "scenarios" THEN <<"a">> ELSE <<"b">>)
    ELSE <<ToString(i)>>

\* An address is the sequence of <<category, position>> steps from the root.
RECURSIVE Addrs(_)
Addrs(d) ==
    {<<>>} \cup
    UNION { { <<<<cat, i>>>> \o a : a \in Addrs(Children(d, cat)[i]) } :
            <<cat, i>> \in { <<c, j>> \in {"layers", "scenarios", "steps"} \X (1..MaxBoards + 1) :
                               j <= Len(Children(d, c)) } }

RECURSIVE At(_, _)
At(d, addr) ==
    IF addr = <<>> THEN d
    ELSE At(Children(d, addr[1][1])[addr[1][2]], Tail(addr))

RECURSIVE Replace(_, _, _)
Replace(d, addr, new) ==
    IF addr = <<>> THEN new
    ELSE LET cat == addr[1][1]
             i == addr[1][2]
             sub == Replace(Children(d, cat)[i], Tail(addr), new)
         IN  IF cat = "layers" THEN [d EXCEPT !.Layers[i] = sub]
             ELSE IF cat = "scenarios" THEN [d EXCEPT !.Scenarios[i] = sub]
             ELSE [d EXCEPT !.Steps[i] = sub]

WithChild(d, cat, child) ==
    IF cat = "layers" THEN [d EXCEPT !.Layers = Append(@, child)]
    ELSE IF cat = "scenarios" THEN [d EXCEPT !.Scenarios = Append(@, child)]
    ELSE [d EXCEPT !.Steps = Append(@, child)]

HasChildren(d) == Len(d.Layers) > 0 \/ Len(d.Scenarios) > 0 \/ Len(d.Steps) > 0

NumBoards(d) == Cardinality(Addrs(d))

NumFolderOnly(d) == Cardinality({a \in Addrs(d) : At(d, a).IsFolderOnly})

-----------------------------------------------------------------------------

(* resolveLinks, relink, buildBoardIdToIndex *)

\* ext := filepath.Ext(p); p = strings.TrimSuffix(p, ext);
\* p = filepath.Join(p, seg); p += ext
JoinBeforeExt(p, seg) ==
    LET ext == Ext(p)
    IN  FilepathJoin(TrimSuffix(p, ext), seg) \o ext

\* resolveLinks_outputPath reading the links of the board: the name is
\* nested only for a board that has a shape linking to root.
resolveLinks_outputPath_byLinks(outputPath, d) ==
    IF d.Name # <<>> /\ (\E i \in 1..Len(d.Shapes) : d.Shapes[i].Link = <<"root">>)
        THEN JoinBeforeExt(outputPath, d.Name)
        ELSE outputPath

resolveLinks_outputPath(outputPath, d) ==
    IF d.Name # <<>> THEN JoinBeforeExt(outputPath, d.Name) ELSE outputPath

\* resolveLinks_boardOutputPath with the board written to the computed path
\* whether or not it has sub-boards.
resolveLinks_boardOutputPath_flat(outputPath, d) == outputPath

resolveLinks_boardOutputPath(outputPath, d) ==
    IF Len(d.Layers) > 0 \/ Len(d.Scenarios) > 0 \/ Len(d.Steps) > 0
        THEN JoinBeforeExt(outputPath, <<"index">>)
        ELSE outputPath

resolveLinks_layersOutputPath(outputPath, d) ==
    IF Len(d.Scenarios) > 0 \/ Len(d.Steps) > 0
        THEN JoinBeforeExt(outputPath, <<"layers">>)
        ELSE outputPath

\* resolveLinks_scenariosOutputPath with the block of the layers copied and
\* the segment left as it was.
resolveLinks_scenariosOutputPath_asLayers(outputPath, d) ==
    IF Len(d.Layers) > 0 \/ Len(d.Steps) > 0
        THEN JoinBeforeExt(outputPath, <<"layers">>)
        ELSE outputPath

resolveLinks_scenariosOutputPath(outputPath, d) ==
    IF Len(d.Layers) > 0 \/ Len(d.Steps) > 0
        THEN JoinBeforeExt(outputPath, <<"scenarios">>)
        ELSE outputPath

\* resolveLinks_stepsOutputPath without the collapsing rule.
resolveLinks_stepsOutputPath_always(outputPath, d) ==
    JoinBeforeExt(outputPath, <<"steps">>)

resolveLinks_stepsOutputPath(outputPath, d) ==
    IF Len(d.Layers) > 0 \/ Len(d.Scenarios) > 0
        THEN JoinBeforeExt(outputPath, <<"steps">>)
        ELSE outputPath

\* for k, v := range m { linkToOutput[k] = v }
MergeInto(linkToOutput, m) == m @@ linkToOutput

\* The identifier of a child: strings.Join({currDiagramPath, category, name}, ".")
\* resolveLinks_childPath with the category left out of the identifier.
resolveLinks_childPath_noCategory(currDiagramPath, cat, name) ==
    StringsJoin(<<currDiagramPath, name>>, <<".">>)

resolveLinks_childPath(currDiagramPath, cat, name) ==
    StringsJoin(<<currDiagramPath, <<cat>>, name>>, <<".">>)

\* resolveLinks returns the map; `frames` lists, board by board in visiting
\* order, the values of its local variables.
RECURSIVE resolveLinks(_, _, _)

\* resolveLinks from the point where outputPath holds the name of the board.
resolveLinks_named(currDiagramPath, outputPath, d) ==
    LET boardOutputPath == resolveLinks_boardOutputPath(outputPath, d)
        layersOutputPath == resolveLinks_layersOutputPath(outputPath, d)
        scenariosOutputPath == resolveLinks_scenariosOutputPath(outputPath, d)
        stepsOutputPath == resolveLinks_stepsOutputPath(outputPath, d)
        frame == [id |-> currDiagramPath,
                  outputPath |-> outputPath,
                  boardOutputPath |-> boardOutputPath,
                  layers |-> layersOutputPath,
                  scenarios |-> scenariosOutputPath,
                  steps |-> stepsOutputPath,
                  populated |-> {c \in {"layers", "scenarios", "steps"} :
                                   Len(Children(d, c)) > 0}]
        start == [linkToOutput |-> (currDiagramPath :> boardOutputPath),
                  frames |-> <<frame>>]
        Loop(acc0, cat, catPath) ==
            LET kids == Children(d, cat)
                F[i \in 0..Len(kids)] ==
                    IF i = 0 THEN acc0
                    ELSE LET prev == F[i - 1]
                             r == resolveLinks(
                                    resolveLinks_childPath(currDiagramPath, cat, kids[i].Name),
                                    catPath, kids[i])
                         IN  [linkToOutput |-> MergeInto(prev.linkToOutput, r.linkToOutput),
                              frames |-> prev.frames \o r.frames]
            IN  F[Len(kids)]
        afterLayers == Loop(start, "layers", layersOutputPath)
        afterScenarios == Loop(afterLayers, "scenarios", scenariosOutputPath)
    IN  Loop(afterScenarios, "steps", stepsOutputPath)

resolveLinks(currDiagramPath, outputPath0, d) ==
    resolveLinks_named(currDiagramPath, resolveLinks_outputPath(outputPath0, d), d)

\* relink_shape that clears a link it finds no output path for.
relink_shape_dropUnmatched(shape, linkToOutput) ==
    IF shape.Link \in DOMAIN linkToOutput
        THEN [shape EXCEPT !.Link = linkToOutput[shape.Link]]
        ELSE [shape EXCEPT !.Link = <<>>]

relink_shape(shape, linkToOutput) ==
    IF shape.Link # <<>> /\ shape.Link \in DOMAIN linkToOutput
        THEN [shape EXCEPT !.Link = linkToOutput[shape.Link]]
        ELSE shape

RECURSIVE relink(_, _)
relink(d, linkToOutput) ==
    [d EXCEPT
        !.Shapes = [i \in 1..Len(d.Shapes) |-> relink_shape(d.Shapes[i], linkToOutput)],
        !.Layers = [i \in 1..Len(d.Layers) |-> relink(d.Layers[i], linkToOutput)],
        !.Scenarios = [i \in 1..Len(d.Scenarios) |-> relink(d.Scenarios[i], linkToOutput)],
        !.Steps = [i \in 1..Len(d.Steps) |-> relink(d.Steps[i], linkToOutput)]]

\* A Go map that may be nil.
NilMap == [isNil |-> TRUE, m |-> <<>>]

\* A variant of buildBoardIdToIndex_index that numbers the pages from one.
buildBoardIdToIndex_index_fromOne(dict0) == Cardinality(DOMAIN dict0) + 1

\* The index of the next key: len(dictionary)
buildBoardIdToIndex_index(dict0) == Cardinality(DOMAIN dict0)

\* buildBoardIdToIndex fills the one dictionary it was given and returns it.
RECURSIVE buildBoardIdToIndex(_, _, _)
buildBoardIdToIndex(d, dictionary, path) ==
    LET appended == Append(path, d.Name)
        newPath == IF dictionary.isNil THEN [appended EXCEPT ![1] = <<"root">>]
                   ELSE appended
        dict0 == IF dictionary.isNil THEN <<>> ELSE dictionary.m
        key == StringsJoin(newPath, <<".">>)
        dict1 == (key :> buildBoardIdToIndex_index(dict0)) @@ dict0
        Loop(acc0, cat) ==
            LET kids == Children(d, cat)
                F[i \in 0..Len(kids)] ==
                    IF i = 0 THEN acc0
                    ELSE buildBoardIdToIndex(kids[i], [isNil |-> FALSE, m |-> F[i - 1]],
                                             Append(newPath, <<cat>>))
            IN  F[Len(kids)]
    IN  Loop(Loop(Loop(dict1, "layers"), "scenarios"), "steps")

-----------------------------------------------------------------------------

(* side effects *)

\* A state of the world threaded through a call: the disk, the log and the
\* pages or slides of the document being built.
Did(st, ev) == [st EXCEPT !.log = Append(@, ev)]

CountOp(lg, op) == Cardinality({i \in 1..Len(lg) : lg[i].op = op})

IsPrefix(p, q) == Len(p) <= Len(q) /\ SubSeq(q, 1, Len(p)) = p

\* os.RemoveAll(path): path and everything below it is gone.
RemoveAll(st, path) ==
    LET keep == {f \in DOMAIN st.disk : f # path /\ ~IsPrefix(path \o <<"/">>, f)}
    IN  [st EXCEPT !.disk = [f \in keep |-> st.disk[f]],
                   !.log = Append(@, [op |-> "os.RemoveAll", path |-> path])]

\* os.MkdirAll(path, 0755)
MkdirAll(st, path) == Did(st, [op |-> "os.MkdirAll", path |-> path])

\* ms.WritePath(path, out): "-" is standard output, anything else a file.
WritePath(st, path, out) ==
    [st EXCEPT !.disk = IF path = <<"-">> THEN @ ELSE (path :> out) @@ @,
               !.log = Append(@, [op |-> "ms.WritePath", path |-> path, bytes |-> out])]

\* The bytes of a rendered board: what was rendered, and the steps applied since.
Svg(d, masterID, setDimensions) ==
    [board |-> d.Name,
     links |-> [i \in 1..Len(d.Shapes) |-> d.Shapes[i].Link],
     fill |-> d.Fill,
     masterID |-> masterID,
     setDimensions |-> setDimensions,
     steps |-> <<>>]

Step(bytes, name) == [bytes EXCEPT !.steps = Append(@, name)]

NoBytes == <<>>

-----------------------------------------------------------------------------
(* render and _render *)

\* The failure the environment injects: the `at`-th board rendered fails
\* in the call `op`; at = 0 names a call made once per invocation.
Fails(env, n, op) == env.fail.at = n /\ env.fail.op = op

\* The context of the invocation is cancelled, or its deadline passes, just
\* before the `at`-th board is rendered (at = 0: never).  main.go never
\* looks at the context itself; it hands it to plugin.PostProcess and to
\* the image bundlers, and `honoured` holds those of them that return the
\* context's error once it is cancelled.
Cancelled(env, n, op) ==
    /\ env.cancel.at >= 1
    /\ n >= env.cancel.at
    /\ op \in env.cancel.honoured

\* multierr.Combine(a, b)
Combine(a, b) == IF a = "" THEN b ELSE IF b = "" THEN a ELSE a \o "; " \o b

\* The bytes after one more call, if the call was made and did not fail.
StepIf(cond, bytes, name) == IF cond THEN Step(bytes, name) ELSE bytes

\* The world after one more call, if the call was made.
DidIf(cond, st, ev) == IF cond THEN Did(st, ev) ELSE st

\* The error of a call that was made and failed.
ErrIf(cond, name) == IF cond THEN name ELSE ""

\* _render_rasterBundlesRemote with the raster branch never bundling.
_render_rasterBundlesRemote_never(toPNG, bundle) == FALSE

\* The raster branch of _render bundles the remote images itself when the
\* bundle flag has not already made _render do so.
_render_rasterBundlesRemote(toPNG, bundle) == toPNG /\ ~bundle

_render(env, outputPath, d, st0) ==
    LET toPNG == Ext(outputPath) = <<".", "png">>
        n == CountOp(st0.log, "d2svg.Render") + 1
        F(op) == Fails(env, n, op) \/ Cancelled(env, n, op)
        st1 == Did(st0, [op |-> "d2svg.Render", path |-> outputPath])
        svg1 == Svg(d, env.masterID, toPNG)
        st2 == Did(st1, [op |-> "plugin.PostProcess", path |-> outputPath])
        svg2 == Step(svg1, "PostProcess")
        st3 == Did(st2, [op |-> "imgbundler.BundleLocal", path |-> outputPath])
        svg3 == StepIf(~F("imgbundler.BundleLocal"), svg2, "BundleLocal")
        bundleErr1 == ErrIf(F("imgbundler.BundleLocal"), "BundleLocal")
        st4 == DidIf(env.bundle, st3,
                     [op |-> "imgbundler.BundleRemote", path |-> outputPath])
        svg4 == StepIf(env.bundle /\ ~F("imgbundler.BundleRemote"), svg3, "BundleRemote")
        bundleErr2 == Combine(bundleErr1,
                              ErrIf(env.bundle /\ F("imgbundler.BundleRemote"),
                                    "BundleRemote"))
        svg5 == StepIf(env.forceAppendix /\ ~toPNG, svg4, "appendix.Append")
        \* the raster branch works on its own svg; the outer one is returned
        pngSvg1 == Step(svg5, "appendix.Append")
        st5 == DidIf(_render_rasterBundlesRemote(toPNG, env.bundle), st4,
                     [op |-> "imgbundler.BundleRemote", path |-> outputPath])
        pngSvg2 == StepIf(_render_rasterBundlesRemote(toPNG, env.bundle)
                              /\ ~F("imgbundler.BundleRemote"),
                          pngSvg1, "BundleRemote")
        bundleErr == Combine(bundleErr2,
                             ErrIf(_render_rasterBundlesRemote(toPNG, env.bundle)
                                       /\ F("imgbundler.BundleRemote"),
                                   "BundleRemote"))
        st6 == DidIf(toPNG, st5, [op |-> "png.ConvertSVG", path |-> outputPath])
        st7 == DidIf(toPNG, st6, [op |-> "png.AddExif", path |-> outputPath])
        out == IF toPNG THEN Step(Step(pngSvg2, "ConvertSVG"), "AddExif")
               ELSE Step(svg5, "\n")
        st8 == MkdirAll(st7, Dir(outputPath))
        st9 == WritePath(st8, outputPath, out)
        stW == IF env.masterID THEN st7 ELSE st9
    IN  IF F("d2svg.Render") THEN [svg |-> NoBytes, err |-> "d2svg.Render", st |-> st1]
        ELSE IF F("plugin.PostProcess")
            THEN [svg |-> svg1, err |-> "plugin.PostProcess", st |-> st2]
        ELSE IF toPNG /\ F("png.ConvertSVG")
            THEN [svg |-> pngSvg2, err |-> "png.ConvertSVG", st |-> st6]
        ELSE IF toPNG /\ F("png.AddExif")
            THEN [svg |-> pngSvg2, err |-> "png.AddExif", st |-> st7]
        ELSE IF ~env.masterID /\ F("os.MkdirAll")
            THEN [svg |-> svg5, err |-> "os.MkdirAll", st |-> st8]
        ELSE IF ~env.masterID /\ F("ms.WritePath")
            THEN [svg |-> svg5, err |-> "ms.WritePath",
                  st |-> Did(st8, [op |-> "ms.WritePath failed", path |-> outputPath])]
        ELSE [svg |-> svg5, err |-> bundleErr, st |-> stW]

render_outputPath(outputPath, d) ==
    IF d.Name # <<>> THEN JoinBeforeExt(outputPath, d.Name) ELSE outputPath

render_boardOutputPath(outputPath, d) ==
    IF Len(d.Layers) > 0 \/ Len(d.Scenarios) > 0 \/ Len(d.Steps) > 0
        THEN JoinBeforeExt(outputPath, <<"index">>)
        ELSE outputPath

\* render_layersOutputPath without the collapsing rule: the segment is
\* inserted whether or not another category is populated.
render_layersOutputPath_always(outputPath, d) ==
    JoinBeforeExt(outputPath, <<"layers">>)

render_layersOutputPath(outputPath, d) ==
    IF Len(d.Scenarios) > 0 \/ Len(d.Steps) > 0
        THEN JoinBeforeExt(outputPath, <<"layers">>)
        ELSE outputPath

render_scenariosOutputPath(outputPath, d) ==
    IF Len(d.Layers) > 0 \/ Len(d.Steps) > 0
        THEN JoinBeforeExt(outputPath, <<"scenarios">>)
        ELSE outputPath

render_stepsOutputPath(outputPath, d) ==
    IF Len(d.Layers) > 0 \/ Len(d.Scenarios) > 0
        THEN JoinBeforeExt(outputPath, <<"steps">>)
        ELSE outputPath

\* render_folder removing the directory the board's folder is in.
render_folder_parent(outputPath) == Dir(outputPath)

\* The folder of a board with sub-boards, which render removes: the output
\* path without its extension.
render_folder(outputPath) == TrimSuffix(outputPath, Ext(outputPath))

\* What render returns for a board that is not folder-only and rendered.
render_rendered(out, boards, st) ==
    [boards |-> <<out>> \o boards, err |-> "", st |-> st]

\* What render returns for a folder-only board.
render_folderOnly(boards, st) ==
    [boards |-> <<>>, err |-> "", st |-> st]

\* What render returns once _render has returned r for the board itself.
render_own(kidsDone, r) ==
    IF r.err # ""
        THEN [boards |-> kidsDone.boards, err |-> r.err, st |-> r.st]
        ELSE render_rendered(r.svg, kidsDone.boards, r.st)

\* render_board with the board rendered although a sub-board has failed.
render_board_afterError(env, boardOutputPath, d, kidsDone) ==
    IF ~d.IsFolderOnly
        THEN render_own(kidsDone, _render(env, boardOutputPath, d, kidsDone.st))
    ELSE render_folderOnly(kidsDone.boards, kidsDone.st)

\* render after its three loops: the board itself.
render_board(env, boardOutputPath, d, kidsDone) ==
    IF kidsDone.err # "" THEN kidsDone
    ELSE IF ~d.IsFolderOnly
        THEN render_own(kidsDone, _render(env, boardOutputPath, d, kidsDone.st))
    ELSE render_folderOnly(kidsDone.boards, kidsDone.st)

RECURSIVE render(_, _, _, _)

\* render from the point where outputPath holds the name of the board.  The
\* `render` event of the log holds the local variables of the call.
render_named(env, outputPath, d, st0) ==
    LET hasBoards == Len(d.Layers) > 0 \/ Len(d.Scenarios) > 0 \/ Len(d.Steps) > 0
        boardOutputPath == render_boardOutputPath(outputPath, d)
        layersOutputPath == render_layersOutputPath(outputPath, d)
        scenariosOutputPath == render_scenariosOutputPath(outputPath, d)
        stepsOutputPath == render_stepsOutputPath(outputPath, d)
        st1 == IF hasBoards
                   THEN RemoveAll(st0, render_folder(outputPath))
                   ELSE st0
        st2 == Did(st1, [op |-> "render",
                         path |-> outputPath,
                         boardOutputPath |-> boardOutputPath,
                         layers |-> layersOutputPath,
                         scenarios |-> scenariosOutputPath,
                         steps |-> stepsOutputPath,
                         populated |-> {c \in {"layers", "scenarios", "steps"} :
                                          Len(Children(d, c)) > 0}])
        Loop(acc0, cat, catPath) ==
            LET kids == Children(d, cat)
                F[i \in 0..Len(kids)] ==
                    IF i = 0 THEN acc0
                    ELSE LET prev == F[i - 1]
                             r == render(env, catPath, kids[i], prev.st)
                         IN  IF prev.err # "" THEN prev
                             ELSE IF r.err # ""
                                 THEN [boards |-> <<>>, err |-> r.err, st |-> r.st]
                             ELSE [boards |-> prev.boards \o r.boards,
                                   err |-> "", st |-> r.st]
            IN  F[Len(kids)]
        kidsDone == Loop(Loop(Loop([boards |-> <<>>, err |-> "", st |-> st2],
                                   "layers", layersOutputPath),
                              "scenarios", scenariosOutputPath),
                         "steps", stepsOutputPath)
    IN  IF hasBoards /\ outputPath = <<"-">>
            THEN [boards |-> <<>>,
                  err |-> "multiboard output cannot be written to stdout", st |-> st0]
            ELSE render_board(env, boardOutputPath, d, kidsDone)

render(env, outputPath0, d, st0) ==
    render_named(env, render_outputPath(outputPath0, d), d, st0)

-----------------------------------------------------------------------------

(* renderPDF and renderPPTX *)

\* d2parser.ParseKey(link) succeeds with key.Path[0] == "root"
ParsesAsRootKey(link) ==
    /\ Len(link) >= 1
    /\ link[1] = "root"
    /\ Len(link) > 1 => link[2] = "."

\* pdf.AddPDFPage: one page, its title, and for each linked shape either
\* the page the link jumps to or the URL it opens.
AddPDFPage(st, pngImg, boardPath, rootFill, shapes, pageMap) ==
    LET linked == SelectSeq(shapes, LAMBDA sh : sh.Link # <<>>)
        links == [i \in 1..Len(linked) |->
                    IF ParsesAsRootKey(linked[i].Link)
                        THEN [Tooltip |-> linked[i].Link, ExternalUrl |-> <<>>,
                              Index |-> IF linked[i].Link \in DOMAIN pageMap
                                            THEN pageMap[linked[i].Link] + 1 ELSE 0]
                        ELSE [Tooltip |-> linked[i].Link, ExternalUrl |-> linked[i].Link,
                              Index |-> 0]]
    IN  [st EXCEPT !.doc = Append(@, [img |-> pngImg, title |-> boardPath,
                                      fill |-> rootFill, links |-> links]),
                   !.log = Append(@, [op |-> "pdf.AddPDFPage", path |-> boardPath])]

\* The board path of a call: the root board has no name, the output
\* filename stands for it.
currBoardPathOf(boardPath, outputPath, d) ==
    IF d.Name = <<>> THEN Append(boardPath, getFileName(outputPath))
    ELSE Append(boardPath, d.Name)

WithKids(d, cat, kids) ==
    IF cat = "layers" THEN [d EXCEPT !.Layers = kids]
    ELSE IF cat = "scenarios" THEN [d EXCEPT !.Scenarios = kids]
    ELSE [d EXCEPT !.Steps = kids]

\* renderPDF_export with the document exported by every call, nested ones
\* included.
renderPDF_export_everyCall(env, outputPath, isRoot, kidsDone) ==
    IF kidsDone.err # "" THEN kidsDone
    ELSE IF Fails(env, 0, "pdf.Export")
        THEN [kidsDone EXCEPT !.svg = NoBytes, !.err = "pdf.Export",
                              !.st = Did(@, [op |-> "pdf.Export failed",
                                             path |-> outputPath])]
    ELSE [kidsDone EXCEPT
            !.st = [@ EXCEPT
                !.disk = (outputPath :> [pdf |-> kidsDone.st.doc]) @@ @,
                !.log = Append(@, [op |-> "pdf.Export", path |-> outputPath])]]

\* renderPDF after its three loops: the root call exports the document.
renderPDF_export(env, outputPath, isRoot, kidsDone) ==
    IF kidsDone.err # "" THEN kidsDone
    ELSE IF isRoot
        THEN IF Fails(env, 0, "pdf.Export")
                 THEN [kidsDone EXCEPT !.svg = NoBytes, !.err = "pdf.Export",
                                       !.st = Did(@, [op |-> "pdf.Export failed",
                                                      path |-> outputPath])]
                 ELSE [kidsDone EXCEPT
                         !.st = [@ EXCEPT
                             !.disk = (outputPath :> [pdf |-> kidsDone.st.doc]) @@ @,
                             !.log = Append(@, [op |-> "pdf.Export",
                                                path |-> outputPath])]]
    ELSE kidsDone

\* pdf is TRUE for the shared document handle, FALSE for nil.  The result
\* holds the board as the call leaves it: renderPDF writes Root.Fill.
RECURSIVE renderPDF(_, _, _, _, _, _, _)
renderPDF(env, outputPath, d0, pdf, boardPath, pageMap, st0) ==
    LET isRoot == ~pdf
        currBoardPath == currBoardPathOf(boardPath, outputPath, d0)
        n == CountOp(st0.log, "d2svg.Render") + 1
        F(op) == Fails(env, n, op)
        rootFill == d0.Fill
        d1 == [d0 EXCEPT !.Fill = "transparent"]
        st1 == Did(st0, [op |-> "d2svg.Render", path |-> currBoardPath])
        svg1 == Svg(d1, FALSE, TRUE)
        st2 == Did(st1, [op |-> "plugin.PostProcess", path |-> currBoardPath])
        svg2 == Step(svg1, "PostProcess")
        st3 == Did(Did(st2, [op |-> "imgbundler.BundleLocal", path |-> currBoardPath]),
                   [op |-> "imgbundler.BundleRemote", path |-> currBoardPath])
        svg3 == StepIf(~F("imgbundler.BundleLocal"), svg2, "BundleLocal")
        svg4 == StepIf(~F("imgbundler.BundleRemote"), svg3, "BundleRemote")
        bundleErr == Combine(ErrIf(F("imgbundler.BundleLocal"), "BundleLocal"),
                             ErrIf(F("imgbundler.BundleRemote"), "BundleRemote"))
        svg5 == Step(svg4, "appendix.Append")
        st4 == Did(st3, [op |-> "png.ConvertSVG", path |-> currBoardPath])
        pngImg == Step(svg5, "ConvertSVG")
        st5 == AddPDFPage(st4, pngImg, currBoardPath, rootFill, d1.Shapes, pageMap)
        own == IF d0.IsFolderOnly THEN [svg |-> NoBytes, err |-> "", st |-> st0, d |-> d0]
               ELSE IF F("d2svg.Render")
                   THEN [svg |-> NoBytes, err |-> "d2svg.Render", st |-> st1, d |-> d1]
               ELSE IF F("plugin.PostProcess")
                   THEN [svg |-> svg2, err |-> "plugin.PostProcess", st |-> st2, d |-> d1]
               ELSE IF bundleErr # ""
                   THEN [svg |-> svg4, err |-> bundleErr, st |-> st3, d |-> d1]
               ELSE IF F("png.ConvertSVG")
                   THEN [svg |-> svg5, err |-> "png.ConvertSVG", st |-> st4, d |-> d1]
               ELSE IF F("strconv.ParseFloat")
                   THEN [svg |-> svg5, err |-> "strconv.ParseFloat", st |-> st4, d |-> d1]
               ELSE IF F("pdf.AddPDFPage")
                   THEN [svg |-> svg5, err |-> "pdf.AddPDFPage", st |-> st4, d |-> d1]
               \* `svg, bundleErr :=` declares a new svg inside the block: the
               \* svg returned at the end is the one plugin.PostProcess returned
               ELSE [svg |-> svg2, err |-> "", st |-> st5, d |-> d1]
        Loop(acc0, cat) ==
            LET kids == Children(acc0.d, cat)
                F2[i \in 0..Len(kids)] ==
                    IF i = 0 THEN acc0
                    ELSE LET prev == F2[i - 1]
                             r == renderPDF(env, <<>>, kids[i], TRUE, currBoardPath,
                                            pageMap, prev.st)
                             dd == WithKids(prev.d, cat,
                                            [Children(prev.d, cat) EXCEPT ![i] = r.d])
                         IN  IF prev.err # "" THEN prev
                             ELSE [svg |-> IF r.err # "" THEN NoBytes ELSE prev.svg,
                                   err |-> r.err, st |-> r.st, d |-> dd]
            IN  F2[Len(kids)]
        kidsDone == IF own.err # "" THEN own
                    ELSE Loop(Loop(Loop(own, "layers"), "scenarios"), "steps")
    IN  renderPDF_export(env, outputPath, isRoot, kidsDone)

\* The link renderPPTX attaches for one shape.
renderPPTX_link(shape, boardIdToIndex) ==
    LET link == [Tooltip |-> shape.Link, ExternalUrl |-> <<>>, SlideIndex |-> 0]
    IN  IF ~ParsesAsRootKey(shape.Link)
            THEN [link EXCEPT !.ExternalUrl = shape.Link]
        ELSE IF shape.Link \in DOMAIN boardIdToIndex
            THEN [link EXCEPT !.SlideIndex = boardIdToIndex[shape.Link] + 1]
        ELSE link

RECURSIVE renderPPTX(_, _, _, _, _, _)
renderPPTX(env, outputPath, d0, boardPath, boardIdToIndex, st0) ==
    LET currBoardPath == currBoardPathOf(boardPath, outputPath, d0)
        n == CountOp(st0.log, "d2svg.Render") + 1
        F(op) == Fails(env, n, op)
        d1 == [d0 EXCEPT !.Fill = "transparent"]
        st1 == Did(st0, [op |-> "d2svg.Render", path |-> currBoardPath])
        svg1 == Svg(d1, FALSE, TRUE)
        st2 == Did(st1, [op |-> "plugin.PostProcess", path |-> currBoardPath])
        st3 == Did(Did(st2, [op |-> "imgbundler.BundleLocal", path |-> currBoardPath]),
                   [op |-> "imgbundler.BundleRemote", path |-> currBoardPath])
        svg2 == Step(svg1, "PostProcess")
        svg3 == StepIf(~F("imgbundler.BundleLocal"), svg2, "BundleLocal")
        svg4 == StepIf(~F("imgbundler.BundleRemote"), svg3, "BundleRemote")
        bundleErr == Combine(ErrIf(F("imgbundler.BundleLocal"), "BundleLocal"),
                             ErrIf(F("imgbundler.BundleRemote"), "BundleRemote"))
        svg5 == Step(svg4, "appendix.Append")
        st4 == Did(st3, [op |-> "png.ConvertSVG", path |-> currBoardPath])
        pngImg == Step(svg5, "ConvertSVG")
        linked == SelectSeq(d1.Shapes, LAMBDA sh : sh.Link # <<>>)
        slide == [img |-> pngImg, title |-> currBoardPath,
                  links |-> [i \in 1..Len(linked) |->
                               renderPPTX_link(linked[i], boardIdToIndex)]]
        bare == [img |-> pngImg, title |-> currBoardPath, links |-> <<>>]
        st5(sl) == [st4 EXCEPT !.doc = Append(@, sl),
                               !.log = Append(@, [op |-> "presentation.AddSlide",
                                                  path |-> currBoardPath])]
        own == IF d0.IsFolderOnly THEN [svg |-> NoBytes, err |-> "", st |-> st0, d |-> d0]
               ELSE IF F("d2svg.Render")
                   THEN [svg |-> NoBytes, err |-> "d2svg.Render", st |-> st1, d |-> d1]
               ELSE IF F("plugin.PostProcess")
                   THEN [svg |-> NoBytes, err |-> "plugin.PostProcess", st |-> st2, d |-> d1]
               ELSE IF bundleErr # ""
                   THEN [svg |-> NoBytes, err |-> bundleErr, st |-> st3, d |-> d1]
               ELSE IF F("png.ConvertSVG")
                   THEN [svg |-> NoBytes, err |-> "png.ConvertSVG", st |-> st4, d |-> d1]
               ELSE IF F("presentation.AddSlide")
                   THEN [svg |-> NoBytes, err |-> "presentation.AddSlide", st |-> st4,
                         d |-> d1]
               ELSE IF F("strconv.ParseFloat")
                   THEN [svg |-> NoBytes, err |-> "strconv.ParseFloat", st |-> st5(bare),
                         d |-> d1]
               \* the svg of the enclosing scope, as plugin.PostProcess returned it
               ELSE [svg |-> svg2, err |-> "", st |-> st5(slide), d |-> d1]
        Loop(acc0, cat) ==
            LET kids == Children(acc0.d, cat)
                F2[i \in 0..Len(kids)] ==
                    IF i = 0 THEN acc0
                    ELSE LET prev == F2[i - 1]
                             r == renderPPTX(env, <<>>, kids[i], currBoardPath,
                                             boardIdToIndex, prev.st)
                             dd == WithKids(prev.d, cat,
                                            [Children(prev.d, cat) EXCEPT ![i] = r.d])
                         IN  IF prev.err # "" THEN prev
                             ELSE [svg |-> IF r.err # "" THEN NoBytes ELSE prev.svg,
                                   err |-> r.err, st |-> r.st, d |-> dd]
            IN  F2[Len(kids)]
    IN  IF own.err # "" THEN own
        ELSE Loop(Loop(Loop(own, "layers"), "scenarios"), "steps")

-----------------------------------------------------------------------------

(* compile and Run *)

\* What compile returns, with the world and the tree as it leaves them.
Returned(out, written, err, st, d, x) ==
    [out |-> out, written |-> written, err |-> err, st |-> st, d |-> d,
     linkToOutput |-> x.linkToOutput, frames |-> x.frames,
     pageMap |-> x.pageMap, boards |-> x.boards]

Nothing == [linkToOutput |-> <<>>, frames |-> <<>>, pageMap |-> <<>>, boards |-> <<>>]

\* The calls compile makes before it looks at the output format; each can
\* fail, and then compile returns (nil, false, err).
compile_preflight(env) ==
    <<"ms.ReadPath", "textmeasure.NewRuler", "d2lib.Compile">>
    \o (IF env.animateInterval > 0 THEN <<"diagram.HashID">> ELSE <<>>)
    \o <<"plugin.Info", "d2plugin.FeatureSupportCheck">>

\* The value compile returns as `written` when render has returned an error.
compile_writtenOnRenderError == FALSE

\* compile once renderPDF has returned r.
compile_pdf_built(x, r) ==
    IF r.err # "" THEN Returned(r.svg, FALSE, r.err, r.st, r.d, x)
    ELSE Returned(r.svg, TRUE, "", r.st, r.d, x)

compile_pdf(env, d, st0) ==
    LET pm == buildBoardIdToIndex(d, NilMap, <<>>)
    IN  compile_pdf_built([Nothing EXCEPT !.pageMap = pm],
                          renderPDF(env, env.outputPath, d, FALSE, <<>>, pm, st0))

\* compile once renderPPTX has returned r.
compile_pptx_built(env, x, r) ==
    IF r.err # "" THEN Returned(NoBytes, FALSE, r.err, r.st, r.d, x)
    ELSE IF Fails(env, 0, "p.SaveTo")
        THEN Returned(NoBytes, FALSE, "p.SaveTo",
                      Did(r.st, [op |-> "p.SaveTo failed", path |-> env.outputPath]),
                      r.d, x)
    ELSE Returned(r.svg, TRUE, "",
                  [r.st EXCEPT
                      !.disk = (env.outputPath :> [pptx |-> r.st.doc]) @@ @,
                      !.log = Append(@, [op |-> "p.SaveTo", path |-> env.outputPath])],
                  r.d, x)

compile_pptx(env, d, st0) ==
    LET pm == buildBoardIdToIndex(d, NilMap, <<>>)
    IN  compile_pptx_built(env, [Nothing EXCEPT !.pageMap = pm],
                           renderPPTX(env, env.outputPath, d, <<>>, pm, st0))

\* compile once render has returned r for the tree d1.
compile_default_rendered(env, d1, x0, r) ==
    LET x == [x0 EXCEPT !.boards = r.boards]
        st2 == Did(r.st, [op |-> "d2animate.Wrap", path |-> env.outputPath,
                          bytes |-> r.boards])
        st3 == MkdirAll(st2, Dir(env.outputPath))
        wrapped == [animated |-> r.boards]
        st4 == WritePath(st3, env.outputPath, wrapped)
    IN  IF r.err # ""
            THEN Returned(NoBytes, compile_writtenOnRenderError, r.err, r.st, d1, x)
        ELSE IF Len(r.boards) > 0 /\ env.animateInterval > 0
            THEN IF Fails(env, 0, "d2animate.Wrap")
                     THEN Returned(NoBytes, FALSE, "d2animate.Wrap", st2, d1, x)
                 ELSE IF Fails(env, 0, "os.MkdirAll")
                     THEN Returned(NoBytes, FALSE, "os.MkdirAll", st3, d1, x)
                 ELSE IF Fails(env, 0, "ms.WritePath")
                     THEN Returned(NoBytes, FALSE, "ms.WritePath",
                                   Did(st3, [op |-> "ms.WritePath failed",
                                             path |-> env.outputPath]), d1, x)
                 ELSE Returned(wrapped, TRUE, "", st4, d1, x)
        ELSE IF Len(r.boards) > 0 THEN Returned(r.boards[1], TRUE, "", r.st, d1, x)
        ELSE Returned(NoBytes, TRUE, "", r.st, d1, x)

\* compile from its call of render.
compile_default_resolved(env, d1, st1, x0) ==
    compile_default_rendered(env, d1, x0, render(env, env.outputPath, d1, st1))

\* compile from its call of relink: rl is what resolveLinks returned.
compile_default_relinked(env, d0, st0, rl) ==
    compile_default_resolved(
        env, relink(d0, rl.linkToOutput),
        Did(Did(st0, [op |-> "resolveLinks", path |-> env.outputPath]),
            [op |-> "relink", path |-> env.outputPath]),
        [Nothing EXCEPT !.linkToOutput = rl.linkToOutput, !.frames = rl.frames])

\* compile_default with the links resolved and rewritten whatever the
\* animate interval.
compile_default_alwaysRelink(env, d0, st0) ==
    compile_default_relinked(env, d0, st0,
                             resolveLinks(<<"root">>, env.outputPath, d0))

compile_default(env, d0, st0) ==
    IF env.animateInterval <= 0
        THEN compile_default_relinked(env, d0, st0,
                                      resolveLinks(<<"root">>, env.outputPath, d0))
        ELSE compile_default_resolved(env, d0, st0, Nothing)

\* compile_masterID with renderOpts.MasterID left empty.
compile_masterID_never(animateInterval) == FALSE

\* renderOpts.MasterID is set, to the hash of the diagram, for an animated
\* render only.
compile_masterID(animateInterval) == animateInterval > 0

compile(env0, d, st0) ==
    LET env == [env0 EXCEPT !.masterID = compile_masterID(env0.animateInterval)]
        pre == compile_preflight(env)
        failed == {i \in 1..Len(pre) : Fails(env, 0, pre[i])}
        st1 == Did(Did(st0, [op |-> "ms.ReadPath", path |-> <<>>]),
                   [op |-> "d2lib.Compile", path |-> <<>>])
    IN  IF Fails(env, 0, "ms.ReadPath")
            THEN Returned(NoBytes, FALSE, "ms.ReadPath",
                          Did(st0, [op |-> "ms.ReadPath", path |-> <<>>]), d, Nothing)
        ELSE IF failed # {}
            THEN Returned(NoBytes, FALSE, pre[CHOOSE i \in failed : TRUE], st1, d, Nothing)
        ELSE IF Ext(env.outputPath) = <<".", "pdf">> THEN compile_pdf(env, d, st1)
        ELSE IF Ext(env.outputPath) = <<".", "pptx">> THEN compile_pptx(env, d, st1)
        ELSE compile_default(env, d, st1)

\* ms.AbsPath(path): path under the working directory unless it is absolute.
Pwd == <<"/", "w">>

AbsPath(path) ==
    IF Len(path) > 0 /\ path[1] = "/" THEN Clean(path) ELSE FilepathJoin(Pwd, path)

Run_outputPath(outputPath) ==
    IF outputPath # <<"-">> THEN AbsPath(outputPath) ELSE outputPath

Raster(outputPath) ==
    \/ Ext(outputPath) = <<".", "png">>
    \/ Ext(outputPath) = <<".", "pdf">>
    \/ Ext(outputPath) = <<".", "pptx">>

\* Run_animateRejected with the check made for .png alone.
Run_animateRejected_pngOnly(a) ==
    /\ a.outputPath # <<"-">>
    /\ a.animateInterval > 0
    /\ Ext(Run_outputPath(a.outputPath)) = <<".", "png">>

\* The usage error of Run for -animate-interval with a raster or paginated target.
Run_animateRejected(a) ==
    /\ a.outputPath # <<"-">>
    /\ a.animateInterval > 0
    /\ Raster(Run_outputPath(a.outputPath))

\* What Run reports for what compile returned.
Run_report(c) ==
    IF c.err # ""
        THEN IF c.written THEN "failed to fully compile (partial render written)"
             ELSE "failed to compile"
        ELSE ""

-----------------------------------------------------------------------------
(* The flags, arguments and failures Run is explored with. *)

OutputPaths ==
    { <<"diagrams", "/", "app", ".", "svg">>,
      <<"-">>,
      <<"app", ".", "png">>,
      <<"app", ".", "pdf">>,
      <<"app", ".", "pptx">> }

NoFailure == [at |-> 0, op |-> ""]

NoCancel == [at |-> 0, honoured |-> {}]

\* The calls of _render that are handed the context.
CtxOps == {"plugin.PostProcess", "imgbundler.BundleLocal", "imgbundler.BundleRemote"}

\* The calls made once per board rendered, by output format.
BoardOps(a) ==
    LET o == Run_outputPath(a.outputPath)
    IN  IF Ext(o) = <<".", "pdf">>
            THEN {"d2svg.Render", "plugin.PostProcess", "imgbundler.BundleLocal",
                  "imgbundler.BundleRemote", "png.ConvertSVG", "strconv.ParseFloat",
                  "pdf.AddPDFPage"}
        ELSE IF Ext(o) = <<".", "pptx">>
            THEN {"d2svg.Render", "plugin.PostProcess", "imgbundler.BundleLocal",
                  "imgbundler.BundleRemote", "png.ConvertSVG", "strconv.ParseFloat",
                  "presentation.AddSlide"}
        ELSE {"d2svg.Render", "plugin.PostProcess", "imgbundler.BundleLocal"}
             \cup (IF a.bundle \/ Ext(o) = <<".", "png">>
                       THEN {"imgbundler.BundleRemote"} ELSE {})
             \cup (IF Ext(o) = <<".", "png">>
                       THEN {"png.ConvertSVG", "png.AddExif"} ELSE {})
             \cup (IF a.animateInterval = 0 THEN {"os.MkdirAll", "ms.WritePath"} ELSE {})

\* The calls compile makes once, after the boards are rendered.
TailOps(a) ==
    LET o == Run_outputPath(a.outputPath)
    IN  (IF Raster(o) THEN {"pw.Cleanup"} ELSE {})
        \cup (IF Ext(o) = <<".", "pdf">> THEN {"pdf.Export"} ELSE {})
        \cup (IF Ext(o) = <<".", "pptx">> THEN {"p.SaveTo"} ELSE {})
        \cup (IF a.animateInterval > 0
                  THEN {"d2animate.Wrap", "os.MkdirAll", "ms.WritePath"}
                  ELSE {})

\* The calls Run and compile make once, before any board is rendered.
HeadOps(a) ==
    LET o == Run_outputPath(a.outputPath)
    IN  {"ms.ReadPath", "textmeasure.NewRuler", "d2lib.Compile", "plugin.Info",
         "d2plugin.FeatureSupportCheck"}
        \cup (IF Raster(o) THEN {"png.InitPlaywright"} ELSE {})
        \cup (IF a.animateInterval > 0 THEN {"diagram.HashID"} ELSE {})

NumRendered(d) == Cardinality({addr \in Addrs(d) : ~At(d, addr).IsFolderOnly})

\* The flags and arguments of a run.  bundle and forceAppendix are read by
\* _render only, so they vary only where _render is reached.
RunArgs ==
    UNION { IF Ext(o) \in {<<".", "pdf">>, <<".", "pptx">>}
                THEN { [outputPath |-> o, animateInterval |-> ai, bundle |-> FALSE,
                        forceAppendix |-> FALSE] : ai \in {0, 1} }
            ELSE IF Ext(o) = <<".", "png">>
                THEN { [outputPath |-> o, animateInterval |-> 0, bundle |-> b,
                        forceAppendix |-> fa] :
                          b \in BOOLEAN, fa \in BOOLEAN }
                     \cup { [outputPath |-> o, animateInterval |-> 1, bundle |-> FALSE,
                             forceAppendix |-> FALSE] }
            ELSE { [outputPath |-> o, animateInterval |-> ai, bundle |-> b,
                    forceAppendix |-> fa] :
                      ai \in {0, 1}, b \in BOOLEAN, fa \in BOOLEAN } :
            o \in OutputPaths }

\* The failures injected into a run: none, or one call failing.  Only the
\* calls the run can reach are listed; a call that fails before any board
\* is rendered is tried with the flags off, a call that fails later with
\* forceAppendix off.
Failures(d, a) ==
    {NoFailure}
    \cup (IF Run_animateRejected(a) \/ a.forceAppendix THEN {}
          ELSE [at : {0}, op : TailOps(a)]
               \cup (IF a.outputPath = <<"-">> /\ HasChildren(d) THEN {}
                     ELSE [at : 1..NumRendered(d), op : BoardOps(a)])
               \cup (IF a.bundle THEN {} ELSE [at : {0}, op : HeadOps(a)]))

\* The cancellations a run is explored with: none, or, in a run that
\* renders each board to a file of its own and in which no call fails by
\* itself, the context cancelled after at least one board was rendered,
\* with the plugin, the bundlers or neither honouring it.
Cancellations(d, a, fail) ==
    {NoCancel}
    \cup (IF /\ fail = NoFailure
              /\ a.animateInterval = 0
              /\ ~a.forceAppendix
              /\ Ext(a.outputPath) \in {<<".", "svg">>, <<".", "png">>}
              THEN [at : 2..NumRendered(d),
                    honoured : {{}, {"plugin.PostProcess"},
                                CtxOps \ {"plugin.PostProcess"}}]
              ELSE {})

-----------------------------------------------------------------------------

\* A file of an earlier run, under the directory of the root board.
StaleDisk == (<<"/", "w", "/", "diagrams", "/", "app", "/", "old", ".", "svg">> :> "stale")

Init ==
    /\ diagram = Board(<<>>)
    /\ delivered = Board(<<>>)
    /\ pc = "input"
    /\ args = <<>>
    /\ disk = StaleDisk
    /\ log = <<>>
    /\ doc = <<>>
    /\ resolved = <<>>
    /\ frames = <<>>
    /\ indexed = <<>>
    /\ rendered = <<>>
    /\ ret = <<>>
    /\ injected = NoFailure
    /\ cancelled = NoCancel

\* d2lib.Compile delivers a board under an existing board; the names of
\* the boards of one category of one board are distinct map keys.
CompileBoard ==
    /\ pc = "input"
    /\ NumBoards(diagram) <= MaxBoards
    /\ \E addr \in Addrs(diagram), cat \in {"layers", "scenarios", "steps"} :
         LET parent == At(diagram, addr)
             name == NameAt(cat, Len(Children(parent, cat)) + 1)
         IN  /\ ~parent.IsFolderOnly
             /\ diagram' = Replace(diagram, addr, WithChild(parent, cat, Board(name)))
             /\ delivered' = diagram'
    /\ UNCHANGED <<pc, args, disk, log, doc, resolved, frames, indexed, rendered, ret,
                   injected, cancelled>>

\* d2lib.Compile flags a board that only groups its sub-boards: it has
\* sub-boards and no shapes of its own.
CompileFolderOnly ==
    /\ pc = "input"
    /\ NumFolderOnly(diagram) < MaxFolderOnly
    /\ \E addr \in Addrs(diagram) :
         LET b == At(diagram, addr)
         IN  /\ HasChildren(b)
             /\ ~b.IsFolderOnly
             /\ diagram' = Replace(diagram, addr,
                                   [b EXCEPT !.IsFolderOnly = TRUE, !.Shapes = <<>>])
             /\ delivered' = diagram'
    /\ UNCHANGED <<pc, args, disk, log, doc, resolved, frames, indexed, rendered, ret,
                   injected, cancelled>>

\* Run, from the check of the output path to its return, with the flags and
\* arguments a, the failing call `fail` and the cancellation `cancel`.
Run_with(a, fail, cancel) ==
    LET env == [outputPath |-> Run_outputPath(a.outputPath),
                animateInterval |-> a.animateInterval, bundle |-> a.bundle,
                forceAppendix |-> a.forceAppendix, masterID |-> FALSE,
                fail |-> fail, cancel |-> cancel]
        st0 == [disk |-> disk, log |-> log, doc |-> doc]
        playwright == Raster(env.outputPath)
        cleanupFails == playwright /\ Fails(env, 0, "pw.Cleanup")
    IN  \E c \in {IF Run_animateRejected(a) THEN Nothing
                  ELSE compile(env, diagram, st0)} :
        /\ args' = a
        /\ injected' = fail
        /\ cancelled' = cancel
        /\ pc' = "done"
        /\ IF Run_animateRejected(a)
               THEN /\ ret' = [called |-> FALSE, err |-> "usage", written |-> FALSE,
                               out |-> NoBytes]
                    /\ UNCHANGED <<diagram, disk, log, doc, resolved, frames,
                                   indexed, rendered>>
           ELSE IF playwright /\ Fails(env, 0, "png.InitPlaywright")
               THEN /\ ret' = [called |-> FALSE, err |-> "png.InitPlaywright",
                               written |-> FALSE, out |-> NoBytes]
                    /\ UNCHANGED <<diagram, disk, log, doc, resolved, frames,
                                   indexed, rendered>>
           ELSE /\ ret' = [called |-> TRUE,
                           err |-> IF c.err # "" THEN Run_report(c)
                                   ELSE IF cleanupFails THEN "pw.Cleanup" ELSE "",
                           compileErr |-> c.err,
                           written |-> c.written, out |-> c.out]
                /\ diagram' = c.d
                /\ disk' = c.st.disk
                /\ log' = c.st.log
                /\ doc' = c.st.doc
                /\ resolved' = c.linkToOutput
                /\ frames' = c.frames
                /\ indexed' = c.pageMap
                /\ rendered' = c.boards
        /\ UNCHANGED delivered

Run ==
    /\ pc = "input"
    /\ \E a \in RunArgs : \E fail \in Failures(diagram, a) :
       \E cancel \in Cancellations(diagram, a, fail) :
           Run_with(a, fail, cancel)

Next == CompileBoard \/ CompileFolderOnly \/ Run

Spec == Init /\ [][Next]_vars

-----------------------------------------------------------------------------
(* Larger trees, rendered to SVG files. *)

MaxBoardsToFiles == 3    \* boards below the root in SpecToFiles

\* d2lib.Compile delivers a board under an existing board, as CompileBoard
\* does, up to MaxBoardsToFiles boards below the root.
CompileBoardToFiles ==
    /\ pc = "input"
    /\ NumBoards(diagram) <= MaxBoardsToFiles
    /\ \E addr \in Addrs(diagram), cat \in {"layers", "scenarios", "steps"} :
         LET parent == At(diagram, addr)
             name == NameAt(cat, Len(Children(parent, cat)) + 1)
         IN  /\ ~parent.IsFolderOnly
             /\ diagram' = Replace(diagram, addr, WithChild(parent, cat, Board(name)))
             /\ delivered' = diagram'
    /\ UNCHANGED <<pc, args, disk, log, doc, resolved, frames, indexed, rendered, ret,
                   injected, cancelled>>

\* The runs of SpecToFiles: each board to an SVG file of its own, no flag set.
ArgsToFiles ==
    {a \in RunArgs : /\ Ext(a.outputPath) = <<".", "svg">>
                     /\ a.animateInterval = 0
                     /\ ~a.bundle
                     /\ ~a.forceAppendix}

\* The failures of SpecToFiles: none, or the render or the write of one board.
FailuresToFiles(d) ==
    {NoFailure} \cup [at : 1..NumRendered(d), op : {"d2svg.Render", "ms.WritePath"}]

RunToFiles ==
    /\ pc = "input"
    /\ \E a \in ArgsToFiles : \E fail \in FailuresToFiles(diagram) :
           Run_with(a, fail, NoCancel)

NextToFiles == CompileBoardToFiles \/ CompileFolderOnly \/ RunToFiles

SpecToFiles == Init /\ [][NextToFiles]_vars

-----------------------------------------------------------------------------
(* Partial failure *)

\* A run that renders each board to a file of its own.
RendersToFiles ==
    /\ pc = "done"
    /\ ret.called
    /\ args.animateInterval = 0
    /\ args.outputPath # <<"-">>
    /\ Ext(args.outputPath) \in {<<".", "svg">>, <<".", "png">>}

\* A board's file was written, and a board rendered after it failed.
FailedAfterWrite ==
    /\ RendersToFiles
    /\ HasChildren(delivered)
    /\ ret.compileErr # ""
    /\ \E i, j \in 1..Len(log) :
         /\ i < j
         /\ log[i].op = "ms.WritePath"
         /\ log[j].op = "d2svg.Render"

\* Every file the run wrote is on disk with the bytes it was written with.
WrittenFilesIntact ==
    \A i \in 1..Len(log) :
        log[i].op = "ms.WritePath" =>
            /\ log[i].path \in DOMAIN disk
            /\ disk[log[i].path] = log[i].bytes

\* C1: if, during a multi-board render to files, a board's file has been
\* written and a later board then fails to render, compile returns an error
\* with written = true, Run reports "partial render written", and the files
\* written before the failure are on disk with their content unchanged.
C1_PartialFailureReported ==
    FailedAfterWrite =>
        /\ ret.written = TRUE
        /\ ret.err = "failed to fully compile (partial render written)"
        /\ WrittenFilesIntact

\* A layer was written to its file, the root board then failed to render,
\* and compile returned written = false: Run reports "failed to compile".
C1_WrittenThenFailed ==
    /\ FailedAfterWrite
    /\ WrittenFilesIntact
    /\ ret.written = FALSE
    /\ ret.err = "failed to compile"

-----------------------------------------------------------------------------
(* The boards of a tree, listed for the properties below *)

\* The identifier of the child `name` of category `cat` of the board `id`.
ChildId(id, cat, name) == id \o <<".", cat, ".">> \o name

\* The boards of d in depth-first order, a board before its descendants,
\* children taken as Layers, then Scenarios, then Steps, each in list order:
\* the identifier of each, the names from the root down to it, and the board.
RECURSIVE Preorder(_, _, _)
Preorder(d, id, names) ==
    LET Kids(cat) ==
            LET kids == Children(d, cat)
                F[i \in 0..Len(kids)] ==
                    IF i = 0 THEN <<>>
                    ELSE LET prev == F[i - 1]
                         IN  prev \o Preorder(kids[i], ChildId(id, cat, kids[i].Name),
                                              Append(names, kids[i].Name))
            IN  F[Len(kids)]
    IN  <<[id |-> id, names |-> names, board |-> d]>>
        \o Kids("layers") \o Kids("scenarios") \o Kids("steps")

\* The boards of the tree d2lib.Compile delivered, and those with content.
Boards == Preorder(delivered, <<"root">>, <<<<>>>>)

ContentBoards == SelectSeq(Boards, LAMBDA e : ~e.board.IsFolderOnly)

-----------------------------------------------------------------------------
(* Pagination *)

\* A PDF or PPTX document was built and saved.
PaginatedBuilt ==
    /\ pc = "done"
    /\ ret.called
    /\ ret.compileErr = ""
    /\ Ext(args.outputPath) \in {<<".", "pdf">>, <<".", "pptx">>}

\* The one-based page or slide a link jumps to, 0 for none.
LinkIndex(l) == IF "Index" \in DOMAIN l THEN l.Index ELSE l.SlideIndex

\* C2: after a successful PDF or PPTX build, the zero-based position of the
\* page or slide of every board that is not folder-only equals the index
\* buildBoardIdToIndex assigned to the board's identifier, so an internal
\* link to the board, attached as index + 1, lands on the board's own page.
C2_PagePositionIsIndex ==
    PaginatedBuilt =>
        /\ Len(doc) = Len(ContentBoards)
        /\ \A k \in 1..Len(ContentBoards) :
             /\ Tail(doc[k].title) = Tail(ContentBoards[k].names)
             /\ indexed[ContentBoards[k].id] = k - 1
        /\ \A k \in 1..Len(doc) : \A i \in 1..Len(doc[k].links) :
             LET l == doc[k].links[i]
             IN  LinkIndex(l) > 0 =>
                     /\ LinkIndex(l) <= Len(ContentBoards)
                     /\ ContentBoards[LinkIndex(l)].id = l.Tooltip

\* A folder-only root with one layer: the document has one page, the layer's,
\* at position 0, and the layer's index is 1; the link to the layer jumps to
\* page 2 of a one-page document.
C2_IndexCountsFolderOnly ==
    /\ PaginatedBuilt
    /\ delivered.IsFolderOnly
    /\ Len(doc) = 1
    /\ Tail(doc[1].title) = <<<<"details">>>>
    /\ indexed[<<"root", ".", "layers", ".", "details">>] = 1
    /\ \E i \in 1..Len(doc[1].links) :
         /\ doc[1].links[i].Tooltip = <<"root", ".", "layers", ".", "details">>
         /\ LinkIndex(doc[1].links[i]) = 2

-----------------------------------------------------------------------------
(* The buffers render returns *)

\* compile took the default branch and render returned no error.
RenderSucceeded ==
    /\ pc = "done"
    /\ ret.called
    /\ ret.compileErr = ""
    /\ Ext(args.outputPath) \notin {<<".", "pdf">>, <<".", "pptx">>}

\* C3: on success render returns exactly one buffer for each board that is
\* not folder-only, ordered depth-first with a board before its descendants
\* and children taken as Layers, Scenarios, Steps in list order; the buffer
\* of no rendered board is missing.
C3_BuffersInTraversalOrder ==
    RenderSucceeded =>
        /\ Len(rendered) = Len(ContentBoards)
        /\ \A k \in 1..Len(ContentBoards) :
             rendered[k].board = ContentBoards[k].board.Name
        /\ Len(rendered) = CountOp(log, "d2svg.Render")

\* A folder-only root with one layer: the layer was rendered and written,
\* and render returned no buffer at all.
C3_FolderOnlyDropsBuffers ==
    /\ RenderSucceeded
    /\ delivered.IsFolderOnly
    /\ Len(ContentBoards) = 1
    /\ CountOp(log, "d2svg.Render") = 1
    /\ rendered = <<>>

-----------------------------------------------------------------------------
(* The renderer and the link resolver *)

\* The boards of d in the order render writes them: the sub-boards of a
\* board, Layers, Scenarios, Steps, then the board itself.
RECURSIVE Postorder(_, _)
Postorder(d, id) ==
    LET Kids(cat) ==
            LET kids == Children(d, cat)
                F[i \in 0..Len(kids)] ==
                    IF i = 0 THEN <<>>
                    ELSE LET prev == F[i - 1]
                         IN  prev \o Postorder(kids[i], ChildId(id, cat, kids[i].Name))
            IN  F[Len(kids)]
    IN  Kids("layers") \o Kids("scenarios") \o Kids("steps")
        \o <<[id |-> id, board |-> d]>>

WrittenBoards ==
    SelectSeq(Postorder(delivered, <<"root">>), LAMBDA e : ~e.board.IsFolderOnly)

\* The writes of the run, in order.
Writes == SelectSeq(log, LAMBDA ev : ev.op = "ms.WritePath")

\* A non-animated render that succeeded: compile resolved the links and
\* render wrote each board.
RenderedNotAnimated ==
    /\ RenderSucceeded
    /\ args.animateInterval = 0

\* C4: for every board that is not folder-only, the path at which a
\* successful non-animated render writes the board's bytes is exactly the
\* value resolveLinks maps the board's link identifier to.
C4_WritePathIsResolvedPath ==
    RenderedNotAnimated =>
        /\ Len(Writes) = Len(WrittenBoards)
        /\ \A k \in 1..Len(WrittenBoards) :
             /\ Writes[k].bytes.board = WrittenBoards[k].board.Name
             /\ WrittenBoards[k].id \in DOMAIN resolved
             /\ Writes[k].path = resolved[WrittenBoards[k].id]

\* Three boards written, two categories populated at the root: one file is
\* under layers/, one under steps/, and the root board is the index file.
C4_ThreeBoardsWritten ==
    /\ RenderedNotAnimated
    /\ Len(Writes) = 3
    /\ Writes[1].path = <<"/", "w", "/", "diagrams", "/", "app", "/", "layers", "/", "details", ".", "svg">>
    /\ Writes[2].path = <<"/", "w", "/", "diagrams", "/", "app", "/", "steps", "/", "a", ".", "svg">>
    /\ Writes[3].path = <<"/", "w", "/", "diagrams", "/", "app", "/", "index", ".", "svg">>
    /\ resolved[<<"root", ".", "steps", ".", "a">>] = Writes[2].path

-----------------------------------------------------------------------------
(* Path collapsing *)

\* The local variables of every call of resolveLinks and of render made so
\* far: path is the node's output path after its name was nested into it.
ResolveCalls ==
    [i \in 1..Len(frames) |->
        [path |-> frames[i].outputPath,
         boardOutputPath |-> frames[i].boardOutputPath,
         layers |-> frames[i].layers,
         scenarios |-> frames[i].scenarios,
         steps |-> frames[i].steps,
         populated |-> frames[i].populated]]

RenderCalls ==
    LET evs == SelectSeq(log, LAMBDA ev : ev.op = "render")
    IN  [i \in 1..Len(evs) |->
            [path |-> evs[i].path,
             boardOutputPath |-> evs[i].boardOutputPath,
             layers |-> evs[i].layers,
             scenarios |-> evs[i].scenarios,
             steps |-> evs[i].steps,
             populated |-> evs[i].populated]]

PathCalls == ResolveCalls \o RenderCalls

\* The child base output path a call computed for a category.
BasePath(call, cat) ==
    IF cat = "layers" THEN call.layers
    ELSE IF cat = "scenarios" THEN call.scenarios
    ELSE call.steps

\* C5 as stated: for a node with exactly one non-empty category, the child
\* base output path computed for that category equals the node's own
\* boardOutputPath, with no category segment inserted.
C5_SingleCategoryIsBoardOutputPath ==
    \A i \in 1..Len(PathCalls) :
        Cardinality(PathCalls[i].populated) = 1 =>
            \A cat \in PathCalls[i].populated :
                BasePath(PathCalls[i], cat) = PathCalls[i].boardOutputPath

\* C5: for a node with exactly one non-empty category, the child base output
\* path computed for that category, by resolveLinks and by render, equals
\* the node's own output path (its name nested in, `index` not inserted),
\* with no category segment inserted.
C5_SingleCategoryIsOutputPath ==
    \A i \in 1..Len(PathCalls) :
        Cardinality(PathCalls[i].populated) = 1 =>
            \A cat \in PathCalls[i].populated :
                BasePath(PathCalls[i], cat) = PathCalls[i].path

\* A root whose only populated category is Steps, resolved and rendered: the
\* base path of the steps is the output path, the root itself is the index
\* file.
C5_OnlyStepsPopulated ==
    /\ RenderedNotAnimated
    /\ Len(frames) >= 2
    /\ frames[1].populated = {"steps"}
    /\ frames[1].outputPath = <<"/", "w", "/", "diagrams", "/", "app", ".", "svg">>
    /\ frames[1].steps = frames[1].outputPath
    /\ frames[1].boardOutputPath =
           <<"/", "w", "/", "diagrams", "/", "app", "/", "index", ".", "svg">>
    /\ \E i \in 1..Len(RenderCalls) :
         /\ RenderCalls[i].populated = {"steps"}
         /\ RenderCalls[i].steps = RenderCalls[i].path

\* The path p with the directory segment seg inserted before its extension.
InsertSegment(p, seg) ==
    LET n == Len(p)
    IN  IF n >= 2 /\ p[n - 1] = "."
            THEN SubSeq(p, 1, n - 2) \o <<"/", seg, ".", p[n]>>
            ELSE p \o <<"/", seg>>

\* The positions at which two paths of one length differ.
DiffersAt(p, q) == {k \in 1..Len(p) : p[k] # q[k]}

\* C6: for a node with two or more non-empty categories, the child base
\* output path of each populated category is the node's output path with
\* exactly one directory segment inserted, named layers, scenarios or steps
\* after the category; the base paths of different populated categories
\* differ only in that one segment.
C6_SeveralCategoriesInsertSegment ==
    \A i \in 1..Len(PathCalls) :
        LET call == PathCalls[i]
        IN  Cardinality(call.populated) >= 2 =>
                /\ \A cat \in call.populated :
                     BasePath(call, cat) = InsertSegment(call.path, cat)
                /\ \A c1, c2 \in call.populated :
                     c1 # c2 =>
                       /\ Len(BasePath(call, c1)) = Len(BasePath(call, c2))
                       /\ Cardinality(DiffersAt(BasePath(call, c1),
                                                BasePath(call, c2))) = 1

\* A root with a layer and a scenario, resolved and rendered to
\* diagrams/app.svg: the base paths are app/layers.svg and app/scenarios.svg.
C6_LayerAndScenario ==
    /\ RenderedNotAnimated
    /\ Len(frames) >= 1
    /\ frames[1].populated = {"layers", "scenarios"}
    /\ frames[1].layers =
           <<"/", "w", "/", "diagrams", "/", "app", "/", "layers", ".", "svg">>
    /\ frames[1].scenarios =
           <<"/", "w", "/", "diagrams", "/", "app", "/", "scenarios", ".", "svg">>
    /\ \E i \in 1..Len(RenderCalls) :
         /\ RenderCalls[i].populated = {"layers", "scenarios"}
         /\ RenderCalls[i].scenarios = frames[1].scenarios

-----------------------------------------------------------------------------
(* The index file *)

\* compile called resolveLinks and holds the map it returned.
LinksResolved ==
    /\ pc = "done"
    /\ \E i \in 1..Len(log) : log[i].op = "resolveLinks"

\* cat is the one populated category of d.
OnlyPopulated(d, cat) ==
    \A c \in {"layers", "scenarios", "steps"} : Len(Children(d, c)) > 0 <=> c = cat

\* The tree of the example: an unnamed root with the one layer `details`.
RootWithLayerDetails ==
    /\ delivered.Name = <<>>
    /\ Len(delivered.Layers) = 1
    /\ delivered.Scenarios = <<>>
    /\ delivered.Steps = <<>>
    /\ delivered.Layers[1].Name = <<"details">>
    /\ ~HasChildren(delivered.Layers[1])

\* C7: resolveLinks maps the identifier of every board that has a child
\* board in any category to <its output path without extension>/index.<ext>;
\* a leaf child named n of an unnamed root whose only populated category is
\* the child's own maps to <output path without extension>/n.<ext>, its
\* identifier being root.<category>.n.  For diagrams/app.svg and one layer
\* `details`: root -> diagrams/app/index.svg, root.layers.details ->
\* diagrams/app/details.svg.
C7_IndexFileRule ==
    LinksResolved =>
        /\ \A i \in 1..Len(frames) :
             frames[i].populated # {} =>
                 /\ frames[i].id \in DOMAIN resolved
                 /\ resolved[frames[i].id] = InsertSegment(frames[i].outputPath, "index")
        /\ \A cat \in {"layers", "scenarios", "steps"} :
             \A k \in 1..Len(Children(delivered, cat)) :
                LET child == Children(delivered, cat)[k]
                    id == <<"root", ".", cat, ".">> \o child.Name
                IN  (/\ delivered.Name = <<>>
                     /\ OnlyPopulated(delivered, cat)
                     /\ ~HasChildren(child)) =>
                        /\ id \in DOMAIN resolved
                        /\ resolved[id] = InsertSegment(Run_outputPath(args.outputPath),
                                                        child.Name[1])
        /\ (RootWithLayerDetails /\ args.outputPath = <<"diagrams", "/", "app", ".", "svg">>) =>
               resolved =
                   (<<"root">> :>
                       <<"/", "w", "/", "diagrams", "/", "app", "/", "index", ".", "svg">>)
                   @@ (<<"root", ".", "layers", ".", "details">> :>
                       <<"/", "w", "/", "diagrams", "/", "app", "/", "details", ".", "svg">>)

\* The example, resolved: output diagrams/app.svg, one layer `details`.
C7_ExampleResolved ==
    /\ LinksResolved
    /\ RootWithLayerDetails
    /\ args.outputPath = <<"diagrams", "/", "app", ".", "svg">>
    /\ resolved[<<"root">>] =
           <<"/", "w", "/", "diagrams", "/", "app", "/", "index", ".", "svg">>
    /\ resolved[<<"root", ".", "layers", ".", "details">>] =
           <<"/", "w", "/", "diagrams", "/", "app", "/", "details", ".", "svg">>

-----------------------------------------------------------------------------
(* The keys of the two maps *)

BoardIds == {Boards[k].id : k \in 1..Len(Boards)}

\* C8: for a board tree, the keys of the map resolveLinks("root",
\* outputPath, tree) returns are exactly the keys of the map
\* buildBoardIdToIndex(tree, nil, nil) returns: one key per board, root
\* followed by .<category>.<name> for each step down from the root, the
\* category segment never omitted.
C8_SameKeys ==
    pc = "done" =>
        LET rl == resolveLinks(<<"root">>, Run_outputPath(args.outputPath),
                               delivered).linkToOutput
            ix == buildBoardIdToIndex(delivered, NilMap, <<>>)
        IN  /\ DOMAIN rl = DOMAIN ix
            /\ DOMAIN rl = BoardIds
            /\ Cardinality(BoardIds) = Len(Boards)
            /\ LinksResolved => DOMAIN resolved = DOMAIN ix
            /\ DOMAIN indexed # {} => DOMAIN indexed = DOMAIN rl

\* A layer with a step below it, resolved by one run and indexed by
\* another: both maps hold root, root.layers.details and
\* root.layers.details.steps.a.
C8_NestedKeys ==
    /\ pc = "done"
    /\ LinksResolved \/ DOMAIN indexed # {}
    /\ Len(Boards) = 3
    /\ BoardIds = {<<"root">>, <<"root", ".", "layers", ".", "details">>,
                   <<"root", ".", "layers", ".", "details", ".", "steps", ".", "a">>}
    /\ LinksResolved => DOMAIN resolved = BoardIds
    /\ DOMAIN indexed # {} => DOMAIN indexed = BoardIds

-----------------------------------------------------------------------------
(* The pagination indices *)

\* The tree of the example: a root with the layer `a` and the step `b`.
LayerAStepB ==
    WithChild(WithChild(Board(<<>>), "layers", Board(<<"a">>)), "steps", Board(<<"b">>))

\* C9: for a board tree with N boards buildBoardIdToIndex assigns the
\* indices 0..N-1 with no gaps and no repeats: the root, keyed `root`
\* whatever the output filename or its IsFolderOnly flag, gets 0, and each
\* further board the next integer in depth-first Layers, Scenarios, Steps
\* order.  For a root with layers [a] and steps [b]: root 0, root.layers.a 1,
\* root.steps.b 2.
C9_DenseIndices ==
    pc = "done" =>
        LET ix == buildBoardIdToIndex(delivered, NilMap, <<>>)
        IN  /\ Cardinality(DOMAIN ix) = Len(Boards)
            /\ \A k \in 1..Len(Boards) :
                 /\ Boards[k].id \in DOMAIN ix
                 /\ ix[Boards[k].id] = k - 1
            /\ ix[<<"root">>] = 0
            /\ DOMAIN indexed # {} => indexed = ix
            /\ buildBoardIdToIndex(LayerAStepB, NilMap, <<>>) =
                   (<<"root">> :> 0)
                   @@ (<<"root", ".", "layers", ".", "a">> :> 1)
                   @@ (<<"root", ".", "steps", ".", "b">> :> 2)

\* A PDF run on a folder-only root with a layer and a step: the map compile
\* holds is root 0, then the layer, then the step.
C9_IndexedInOrder ==
    /\ pc = "done"
    /\ Ext(args.outputPath) = <<".", "pdf">>
    /\ delivered.IsFolderOnly
    /\ DOMAIN indexed = {<<"root">>, <<"root", ".", "layers", ".", "details">>,
                         <<"root", ".", "steps", ".", "a">>}
    /\ indexed[<<"root">>] = 0
    /\ indexed[<<"root", ".", "layers", ".", "details">>] = 1
    /\ indexed[<<"root", ".", "steps", ".", "a">>] = 2

-----------------------------------------------------------------------------
(* Relinking *)

\* C10: after relink(tree, m), for every shape of every board of the tree,
\* a Link that was equal to a key k of m is exactly m[k], and a Link that
\* was equal to no key of m, an empty Link included, is unchanged; a link
\* that matches no key is not an error: relink goes on and the tree keeps
\* its boards and shapes.
C10_RelinkRoundTrip ==
    LinksResolved =>
        /\ Addrs(diagram) = Addrs(delivered)
        /\ \A addr \in Addrs(delivered) :
             LET before == At(delivered, addr)
                 after == At(diagram, addr)
             IN  /\ Len(after.Shapes) = Len(before.Shapes)
                 /\ after.Name = before.Name
                 /\ \A i \in 1..Len(before.Shapes) :
                      IF before.Shapes[i].Link \in DOMAIN resolved
                          THEN after.Shapes[i].Link = resolved[before.Shapes[i].Link]
                          ELSE after.Shapes[i].Link = before.Shapes[i].Link

\* A root without layers, relinked: the link to root is the root's file,
\* the link to root.layers.details matches no key and is as it was, so are
\* the URL and the empty link.
C10_MatchedAndUnmatched ==
    /\ LinksResolved
    /\ delivered.Layers = <<>>
    /\ Len(delivered.Steps) = 1
    /\ delivered.Shapes[2].Link = <<"root">>
    /\ diagram.Shapes[2].Link =
           <<"/", "w", "/", "diagrams", "/", "app", "/", "index", ".", "svg">>
    /\ diagram.Shapes[1].Link = <<"root", ".", "layers", ".", "details">>
    /\ diagram.Shapes[3].Link = <<"https://d2lang", ".", "com">>
    /\ diagram.Shapes[4].Link = <<>>
    /\ diagram.Steps[1].Shapes[2].Link = diagram.Shapes[2].Link

-----------------------------------------------------------------------------
(* Export of a paginated document *)

\* compile was called for a PDF or PPTX target.
PaginatedRun ==
    /\ pc = "done"
    /\ ret.called
    /\ Ext(args.outputPath) \in {<<".", "pdf">>, <<".", "pptx">>}

\* The calls of pdf.Export and p.SaveTo, failed ones included.
ExportCalls ==
    SelectSeq(log, LAMBDA ev : ev.op \in {"pdf.Export", "pdf.Export failed",
                                          "p.SaveTo", "p.SaveTo failed"})

\* C11: for PDF and PPTX output the document is exported to the output file
\* exactly once, by the outermost call, after every board of the tree has
\* been visited without error; if any step of any board fails, export is
\* never called and no output file is produced.
C11_ExportOnceAfterSuccess ==
    PaginatedRun =>
        LET outputPath == Run_outputPath(args.outputPath)
        IN  /\ Len(ExportCalls) <= 1
            /\ \A k \in 1..Len(ExportCalls) :
                 /\ ExportCalls[k].path = outputPath
                 /\ log[Len(log)] = ExportCalls[k]
                 /\ CountOp(log, "d2svg.Render") = Len(ContentBoards)
                 /\ Len(doc) = Len(ContentBoards)
            /\ ret.compileErr = "" =>
                 /\ Len(ExportCalls) = 1
                 /\ ExportCalls[1].op \in {"pdf.Export", "p.SaveTo"}
                 /\ outputPath \in DOMAIN disk
            /\ ret.compileErr # "" =>
                 /\ outputPath \notin DOMAIN disk
                 /\ DOMAIN disk = DOMAIN StaleDisk
            /\ ret.compileErr \notin {"", "pdf.Export", "p.SaveTo"} =>
                 ExportCalls = <<>>

\* A PDF of three boards, exported: the export is the last call of the run
\* and the file holds three pages.
C11_ThreePagesExported ==
    /\ PaginatedRun
    /\ ret.compileErr = ""
    /\ Len(Boards) = 3
    /\ Len(ContentBoards) = 3
    /\ log[Len(log)].op = "pdf.Export"
    /\ CountOp(log, "pdf.Export") = 1
    /\ Len(disk[Run_outputPath(args.outputPath)].pdf) = 3

-----------------------------------------------------------------------------
(* The board tree across compile *)

\* A board without its sub-boards and with its links blanked: the fields
\* the pipeline is said to leave alone.
SameButLinks(before, after) ==
    /\ after.Name = before.Name
    /\ after.IsFolderOnly = before.IsFolderOnly
    /\ after.Fill = before.Fill
    /\ Len(after.Shapes) = Len(before.Shapes)
    /\ \A c \in {"layers", "scenarios", "steps"} :
         Len(Children(after, c)) = Len(Children(before, c))

\* C12: across any compile invocation, for every output format, no field of
\* any board other than Shapes[i].Link differs between the tree as delivered
\* by the compiler and the tree when compile returns.
C12_OnlyLinksChange ==
    (pc = "done" /\ ret.called) =>
        /\ Addrs(diagram) = Addrs(delivered)
        /\ \A addr \in Addrs(delivered) :
             SameButLinks(At(delivered, addr), At(diagram, addr))

\* A PDF or PPTX run that rendered the root board: the root's fill was
\* white when delivered and is transparent when compile returns.
C12_FillOverwritten ==
    /\ PaginatedRun
    /\ ret.compileErr = ""
    /\ delivered.Fill = "white"
    /\ diagram.Fill = "transparent"
    /\ Len(delivered.Layers) = 1
    /\ diagram.Layers[1].Fill = "transparent"

-----------------------------------------------------------------------------
(* When the links are rewritten *)

\* The positions in the log of the calls named op.
CallsOf(op) == {i \in 1..Len(log) : log[i].op = op}

\* The calls that render a board or touch the output.
ArtifactOps ==
    {"render", "os.RemoveAll", "d2svg.Render", "plugin.PostProcess", "os.MkdirAll",
     "ms.WritePath", "ms.WritePath failed", "d2animate.Wrap", "pdf.AddPDFPage",
     "presentation.AddSlide", "pdf.Export", "p.SaveTo"}

ArtifactCalls == {i \in 1..Len(log) : log[i].op \in ArtifactOps}

\* The links of every shape of d, by the address of its board.
LinksOf(d) ==
    [addr \in Addrs(d) |->
        [i \in 1..Len(At(d, addr).Shapes) |-> At(d, addr).Shapes[i].Link]]

\* compile reached the point where it renders: no call failed before.
ReachedRender ==
    /\ pc = "done"
    /\ ret.called
    /\ CallsOf("d2svg.Render") # {} \/ CallsOf("render") # {}

\* The run renders each board to a file of its own or to standard output.
PerBoardOutput ==
    /\ args.animateInterval = 0
    /\ Ext(args.outputPath) \notin {<<".", "pdf">>, <<".", "pptx">>}

\* C13 as stated: shape links are rewritten exactly once per render
\* invocation, after link resolution has completed for the whole tree and
\* before the first artifact byte of any board is rendered or written.
C13_RelinkedOncePerRender ==
    ReachedRender =>
        /\ Cardinality(CallsOf("relink")) = 1
        /\ \A i \in CallsOf("relink") :
             /\ \E j \in CallsOf("resolveLinks") : j < i
             /\ \A k \in ArtifactCalls : i < k

\* C13: in a run that renders each board to its own file or to standard
\* output (animate interval 0, target neither .pdf nor .pptx) shape links
\* are rewritten exactly once, after link resolution has completed for the
\* whole tree and before the first board is rendered or written; in an
\* animated, PDF or PPTX run they are not rewritten at all.
C13_RelinkedOncePerFileRender ==
    (pc = "done" /\ ret.called) =>
        /\ Cardinality(CallsOf("relink")) <= 1
        /\ \A i \in CallsOf("relink") :
             /\ i > 1
             /\ log[i - 1].op = "resolveLinks"
             /\ Cardinality(CallsOf("resolveLinks")) = 1
             /\ DOMAIN resolved = BoardIds
             /\ \A k \in ArtifactCalls : i < k
        /\ (ReachedRender /\ PerBoardOutput) => Cardinality(CallsOf("relink")) = 1
        /\ ~PerBoardOutput =>
             /\ CallsOf("relink") = {}
             /\ CallsOf("resolveLinks") = {}
             /\ LinksOf(diagram) = LinksOf(delivered)

\* Three boards rendered to files: the links were resolved and rewritten
\* once, and the first board was rendered after that.
C13_RelinkedThenRendered ==
    /\ ReachedRender
    /\ PerBoardOutput
    /\ Len(Boards) = 3
    /\ Cardinality(CallsOf("relink")) = 1
    /\ Cardinality(CallsOf("d2svg.Render")) = 3
    /\ \A i \in CallsOf("relink") : \A k \in CallsOf("d2svg.Render") : i < k
    /\ LinksOf(diagram) # LinksOf(delivered)

-----------------------------------------------------------------------------
(* Fail-fast traversal *)

\* A call made for one board failed: for the injected.at-th board rendered.
BoardFailed ==
    /\ pc = "done"
    /\ ret.called
    /\ injected.at >= 1

\* The position in the log of the n-th call of d2svg.Render.
RenderCall(n) ==
    CHOOSE i \in CallsOf("d2svg.Render") :
        Cardinality({j \in CallsOf("d2svg.Render") : j <= i}) = n

\* C14: when the render of any board at any depth returns an error, no
\* further board is rendered or written in that invocation, neither a later
\* sibling nor an ancestor; the error reaches the caller of compile, and
\* every file written before the error still exists.
C14_FailFast ==
    BoardFailed =>
        /\ ret.compileErr # ""
        /\ ret.err # ""
        /\ Cardinality(CallsOf("d2svg.Render")) = injected.at
        /\ \A k \in (RenderCall(injected.at) + 1)..Len(log) :
             /\ log[k].op \notin {"d2svg.Render", "render", "os.RemoveAll",
                                  "pdf.AddPDFPage", "pdf.Export", "p.SaveTo"}
             /\ log[k].op \in {"ms.WritePath", "presentation.AddSlide"} =>
                  log[k].path = log[RenderCall(injected.at)].path
        /\ \A i \in CallsOf("ms.WritePath") :
             log[i].path # <<"-">> =>
                 /\ log[i].path \in DOMAIN disk
                 /\ (\A j \in CallsOf("ms.WritePath") :
                        j > i => log[j].path # log[i].path) =>
                      disk[log[i].path] = log[i].bytes

\* Three boards to render, the second fails: the first is on disk, the
\* third, the root board, was not rendered.
C14_SecondOfThreeFailed ==
    /\ BoardFailed
    /\ injected = [at |-> 2, op |-> "d2svg.Render"]
    /\ Len(ContentBoards) = 3
    /\ Cardinality(CallsOf("d2svg.Render")) = 2
    /\ Len(Writes) = 1
    /\ Writes[1].path \in DOMAIN disk
    /\ ret.compileErr = "d2svg.Render"

-----------------------------------------------------------------------------
(* Bundling failures *)

\* Bundling failed for one board of a run that writes each board to its own
\* output path; every other call succeeds.
BundlingFailed ==
    /\ pc = "done"
    /\ ret.called
    /\ PerBoardOutput
    /\ injected.at >= 1
    /\ injected.op \in {"imgbundler.BundleLocal", "imgbundler.BundleRemote"}

\* The writes made for the board whose bundling failed.
WritesOfFailedBoard ==
    {i \in CallsOf("ms.WritePath") :
        /\ i > RenderCall(injected.at)
        /\ log[i].path = log[RenderCall(injected.at)].path}

\* C15: when local or remote bundling fails for a board and every other step
\* succeeds, the board's bytes are still written to its output path and
\* still returned to the caller, and the combined bundling error is reported
\* alongside them.
C15_BundlingBestEffort ==
    BundlingFailed =>
        /\ Cardinality(WritesOfFailedBoard) = 1
        /\ \A i \in WritesOfFailedBoard :
             /\ log[i].path # <<"-">> => disk[log[i].path] = log[i].bytes
             /\ \E k \in 1..Len(rendered) :
                  /\ rendered[k].board = log[i].bytes.board
                  /\ rendered[k].links = log[i].bytes.links
             /\ ret.out # NoBytes
        /\ ret.compileErr \in {"BundleLocal", "BundleRemote"}

\* A single board rendered to diagrams/app.svg, local bundling fails: the
\* file is written, render returns no buffer and compile no bytes, only the
\* error.
C15_WrittenNotReturned ==
    /\ BundlingFailed
    /\ ~HasChildren(delivered)
    /\ args.outputPath = <<"diagrams", "/", "app", ".", "svg">>
    /\ <<"/", "w", "/", "diagrams", "/", "app", ".", "svg">> \in DOMAIN disk
    /\ Cardinality(WritesOfFailedBoard) = 1
    /\ rendered = <<>>
    /\ ret.out = NoBytes
    /\ ret.compileErr = "BundleLocal"
    /\ ret.err = "failed to compile"

-----------------------------------------------------------------------------
(* The links of a slide deck *)

\* A slide deck was built and saved.
DeckBuilt ==
    /\ PaginatedBuilt
    /\ Ext(args.outputPath) = <<".", "pptx">>

\* The links attached to the slides of the deck.
DeckLinks == {<<k, i>> \in (1..Len(doc)) \X (1..Len(BoardShapes)) : i <= Len(doc[k].links)}

\* C16: in a slide deck every shape with a non-empty Link gets exactly one
\* target: if the link parses as a board identifier rooted at root, the
\* attached link carries a slide jump to (index of that identifier) + 1;
\* otherwise it carries the link text as an external URL.  No link is
\* attached with neither a slide index nor an external URL.
C16_EveryLinkHasOneTarget ==
    DeckBuilt =>
        /\ \A k \in 1..Len(doc) :
             Len(doc[k].links) =
                 Len(SelectSeq(ContentBoards[k].board.Shapes, LAMBDA sh : sh.Link # <<>>))
        /\ \A <<k, i>> \in DeckLinks :
             LET l == doc[k].links[i]
             IN  /\ (l.SlideIndex > 0) # (l.ExternalUrl # <<>>)
                 /\ IF ParsesAsRootKey(l.Tooltip)
                        THEN /\ l.Tooltip \in DOMAIN indexed
                             /\ l.SlideIndex = indexed[l.Tooltip] + 1
                        ELSE l.ExternalUrl = l.Tooltip

\* A deck of a single board whose shape links to root.layers.details, a
\* board the tree lacks: the link is attached with its tooltip only.
C16_LinkWithoutTarget ==
    /\ DeckBuilt
    /\ ~HasChildren(delivered)
    /\ Len(doc) = 1
    /\ \E i \in 1..Len(doc[1].links) :
         /\ doc[1].links[i].Tooltip = <<"root", ".", "layers", ".", "details">>
         /\ doc[1].links[i].SlideIndex = 0
         /\ doc[1].links[i].ExternalUrl = <<>>
    /\ \E i \in 1..Len(doc[1].links) :
         /\ doc[1].links[i].Tooltip = <<"root">>
         /\ doc[1].links[i].SlideIndex = 1

-----------------------------------------------------------------------------
(* Multi-board output to standard output *)

\* compile was asked to write a tree with sub-boards to standard output,
\* and no call it makes before it looks at the tree failed.
StdoutMultiboard ==
    /\ pc = "done"
    /\ ret.called
    /\ args.outputPath = <<"-">>
    /\ HasChildren(delivered)
    /\ injected.op \notin HeadOps(args)

\* C17: when the output path is "-" and the root board has at least one
\* child board, compile fails with "multiboard output cannot be written to
\* stdout" without having rendered any board, written or removed anything,
\* or modified the board tree.
C17_StdoutRejectedUntouched ==
    StdoutMultiboard =>
        /\ ret.compileErr = "multiboard output cannot be written to stdout"
        /\ CallsOf("d2svg.Render") = {}
        /\ CallsOf("ms.WritePath") = {}
        /\ CallsOf("os.RemoveAll") = {}
        /\ disk = StaleDisk
        /\ diagram = delivered

\* A root with one layer, sent to standard output: compile fails with the
\* message, nothing was rendered, written or removed, and the link to root
\* has been rewritten in the tree.
C17_RelinkedBeforeRejected ==
    /\ StdoutMultiboard
    /\ args.animateInterval = 0
    /\ ret.compileErr = "multiboard output cannot be written to stdout"
    /\ CallsOf("d2svg.Render") = {}
    /\ disk = StaleDisk
    /\ CallsOf("relink") # {}
    /\ delivered.Shapes[2].Link = <<"root">>
    /\ diagram.Shapes[2].Link = resolved[<<"root">>]
    /\ diagram.Shapes[2].Link # <<"root">>

-----------------------------------------------------------------------------
(* Animated output *)

\* compile was called with an animate interval.
AnimatedRun ==
    /\ pc = "done"
    /\ ret.called
    /\ args.animateInterval > 0

\* C18: when the animate interval is greater than 0, no per-board file is
\* written for any board of the tree; the only file written is the merged
\* artifact at the requested output path, written once, after every board
\* has been rendered and the merge step has succeeded.
C18_AnimatedWritesOneFile ==
    AnimatedRun =>
        LET outputPath == Run_outputPath(args.outputPath)
        IN  /\ Cardinality(CallsOf("ms.WritePath")) <= 1
            /\ DOMAIN disk \subseteq (DOMAIN StaleDisk \cup {outputPath})
            /\ \A i \in CallsOf("ms.WritePath") :
                 /\ log[i].path = outputPath
                 /\ log[i].bytes = [animated |-> rendered]
                 /\ i = Len(log)
                 /\ \E j \in CallsOf("d2animate.Wrap") : j < i
                 /\ Cardinality(CallsOf("d2svg.Render")) = Len(ContentBoards)
                 /\ injected.op # "d2animate.Wrap"
                 /\ ret.compileErr = ""
            /\ (ret.compileErr = "" /\ rendered # <<>>) =>
                 /\ Cardinality(CallsOf("ms.WritePath")) = 1
                 /\ outputPath # <<"-">> => disk[outputPath] = [animated |-> rendered]

\* An animated render of three boards: three boards rendered, one file
\* written, the merged one, holding the three buffers.
C18_ThreeFramesOneFile ==
    /\ AnimatedRun
    /\ ret.compileErr = ""
    /\ Len(ContentBoards) = 3
    /\ Cardinality(CallsOf("d2svg.Render")) = 3
    /\ Cardinality(CallsOf("ms.WritePath")) = 1
    /\ Len(rendered) = 3
    /\ disk[<<"/", "w", "/", "diagrams", "/", "app", ".", "svg">>] = [animated |-> rendered]

-----------------------------------------------------------------------------
(* Animation against a raster or paginated target *)

\* Run was given an animate interval and a .png, .pdf or .pptx output path.
AnimatedRaster ==
    /\ pc = "done"
    /\ args.animateInterval > 0
    /\ Ext(args.outputPath) \in {<<".", "png">>, <<".", "pdf">>, <<".", "pptx">>}

\* C19: when the animate interval is greater than 0 and the output path's
\* extension is .png, .pdf or .pptx, Run returns a usage error before compile
\* is called, so nothing is read, rendered or written.
C19_AnimatedRasterRejected ==
    AnimatedRaster =>
        /\ ret.called = FALSE
        /\ ret.err = "usage"
        /\ log = <<>>
        /\ disk = StaleDisk
        /\ doc = <<>>
        /\ diagram = delivered

\* -animate-interval with app.pptx on a tree of three boards: the usage
\* error, and no call was made.
C19_PptxRejected ==
    /\ AnimatedRaster
    /\ args.outputPath = <<"app", ".", "pptx">>
    /\ Len(Boards) = 3
    /\ ret.err = "usage"
    /\ ~ret.called
    /\ log = <<>>

-----------------------------------------------------------------------------
(* Resolving the links twice *)

-----------------------------------------------------------------------------
(* Cancellation *)

\* The context was cancelled during a render of several boards to files.
CancelledDuringRender ==
    /\ pc = "done"
    /\ ret.called
    /\ cancelled.at >= 1

\* The writes made once the context was cancelled.
WritesAfterCancel ==
    {i \in CallsOf("ms.WritePath") : i > RenderCall(cancelled.at)}

\* C21: once the context of the operation is cancelled during a multi-board
\* render, no further board file is written in that invocation, while the
\* files written before for completed boards stay on disk.
C21_CancelStopsWrites ==
    CancelledDuringRender =>
        /\ WritesAfterCancel = {}
        /\ \A i \in CallsOf("ms.WritePath") : log[i].path \in DOMAIN disk

\* The context is cancelled before the second of three boards, the image
\* bundlers return its error: the file of the second board is written all
\* the same, after the bundler has failed, and compile returns the error.
C21_WrittenAfterCancel ==
    /\ CancelledDuringRender
    /\ cancelled = [at |-> 2, honoured |-> CtxOps \ {"plugin.PostProcess"}]
    /\ Len(Boards) = 3
    /\ Cardinality(WritesAfterCancel) = 1
    /\ ret.compileErr = "BundleLocal"
    /\ \E i \in WritesAfterCancel : log[i].path \in DOMAIN disk

-----------------------------------------------------------------------------
(* The order of the events of render *)

\* The path each board is rendered to, by its identifier.
RenderPathOf ==
    resolveLinks(<<"root">>, Run_outputPath(args.outputPath), delivered).linkToOutput

\* The calls of d2svg.Render were made for the boards with content, each
\* after all of its descendants, and the write of a board follows its render
\* before any other board is rendered.
RenderedAfterDescendants ==
    /\ Cardinality(CallsOf("d2svg.Render")) = Len(WrittenBoards)
    /\ \A k \in 1..Len(WrittenBoards) :
         /\ log[RenderCall(k)].path = RenderPathOf[WrittenBoards[k].id]
         /\ args.animateInterval = 0 =>
              \E w \in CallsOf("ms.WritePath") :
                  /\ w > RenderCall(k)
                  /\ k < Len(WrittenBoards) => w < RenderCall(k + 1)
                  /\ log[w].path = log[RenderCall(k)].path

\* The buffers render returned are in the order of ContentBoards, a board
\* in front of its descendants, as far as they were returned at all.
OwnBufferInFront ==
    \A k \in 1..Len(rendered) :
        k <= Len(ContentBoards) /\ rendered[k].board = ContentBoards[k].board.Name

\* C22: in render, a board's own render and write happen only after the
\* render of every one of its descendants has completed, its buffer is then
\* placed in front of its descendants' buffers, and whenever render succeeds
\* on a tree with at least one rendered board the root's buffer is at index
\* 0 of the returned list.
C22_RootBufferFirst ==
    RenderSucceeded =>
        /\ RenderedAfterDescendants
        /\ OwnBufferInFront
        /\ Len(ContentBoards) >= 1 =>
             /\ Len(rendered) >= 1
             /\ rendered[1].board = delivered.Name

\* A folder-only root with two boards below it: both were rendered, in
\* order, and the list render returned is empty.
C22_NoBufferAtIndexZero ==
    /\ RenderSucceeded
    /\ delivered.IsFolderOnly
    /\ Len(ContentBoards) = 2
    /\ RenderedAfterDescendants
    /\ rendered = <<>>

-----------------------------------------------------------------------------
(* Image bundling *)

\* compile reached render: every board is rendered by _render.
SingleBoardPipeline ==
    /\ ReachedRender
    /\ Ext(args.outputPath) \notin {<<".", "pdf">>, <<".", "pptx">>}

\* The calls of op made for the k-th board rendered.
CallsFor(k, op) ==
    {i \in CallsOf(op) :
        /\ i > RenderCall(k)
        /\ k < Cardinality(CallsOf("d2svg.Render")) => i < RenderCall(k + 1)}

\* The k-th board rendered came out of d2svg.Render and plugin.PostProcess
\* without an error.
PostProcessed(k) ==
    /\ ~(injected.at = k /\ injected.op \in {"d2svg.Render", "plugin.PostProcess"})
    /\ ~(cancelled.at >= 1 /\ k >= cancelled.at
           /\ "plugin.PostProcess" \in cancelled.honoured)

\* C23 as stated: in _render local bundling always runs, and remote
\* bundling runs for a board if and only if global bundling is enabled;
\* when it is disabled no remote bundling call is made for any board,
\* whatever the target format.
C23_RemoteIffBundle ==
    SingleBoardPipeline =>
        \A k \in 1..Cardinality(CallsOf("d2svg.Render")) :
            PostProcessed(k) =>
                /\ Cardinality(CallsFor(k, "imgbundler.BundleLocal")) = 1
                /\ Cardinality(CallsFor(k, "imgbundler.BundleRemote"))
                       = IF args.bundle THEN 1 ELSE 0

\* C23 amended: local bundling runs once for every board, and remote
\* bundling runs once for a board if and only if global bundling is enabled
\* or the target is a PNG; when bundling is disabled and the target is not
\* a PNG no remote bundling call is made for any board.
C23_RemoteIffBundleOrPNG ==
    SingleBoardPipeline =>
        /\ \A k \in 1..Cardinality(CallsOf("d2svg.Render")) :
               PostProcessed(k) =>
                   /\ Cardinality(CallsFor(k, "imgbundler.BundleLocal")) = 1
                   /\ Cardinality(CallsFor(k, "imgbundler.BundleRemote"))
                          = IF args.bundle \/ Ext(args.outputPath) = <<".", "png">>
                                THEN 1 ELSE 0
                   /\ \A l \in CallsFor(k, "imgbundler.BundleLocal"),
                        r \in CallsFor(k, "imgbundler.BundleRemote") : l < r
        /\ (~args.bundle /\ Ext(args.outputPath) # <<".", "png">>) =>
               CallsOf("imgbundler.BundleRemote") = {}

\* Three boards rendered to PNG files with bundling disabled: the remote
\* images were bundled for each of them.
C23_PNGBundlesRemote ==
    /\ SingleBoardPipeline
    /\ ret.compileErr = ""
    /\ ~args.bundle
    /\ Ext(args.outputPath) = <<".", "png">>
    /\ Cardinality(CallsOf("d2svg.Render")) = 3
    /\ Cardinality(CallsOf("imgbundler.BundleLocal")) = 3
    /\ Cardinality(CallsOf("imgbundler.BundleRemote")) = 3

-----------------------------------------------------------------------------
(* Collisions of output paths *)

\* The names of the boards of each category of each board are distinct.
SiblingsDistinct ==
    \A i \in 1..Len(Boards) : \A cat \in {"layers", "scenarios", "steps"} :
        LET kids == Children(Boards[i].board, cat)
        IN  \A m, n \in 1..Len(kids) : kids[m].Name = kids[n].Name => m = n

\* C24: for any board tree in which sibling boards of the same category
\* have distinct names, resolveLinks maps distinct boards to distinct output
\* paths, so no board's file is overwritten by another board's file during
\* one render.
C24_PathsCollisionFree ==
    (LinksResolved /\ SiblingsDistinct) =>
        /\ \A a, b \in DOMAIN resolved : resolved[a] = resolved[b] => a = b
        /\ \A i, j \in CallsOf("ms.WritePath") : log[i].path = log[j].path => i = j

\* A root whose only sub-board is the scenario `index`: resolveLinks maps
\* both boards to app/index.svg, the scenario's file is written first and
\* the root's file replaces it.
C24_IndexOverwritten ==
    /\ LinksResolved
    /\ SiblingsDistinct
    /\ ret.compileErr = ""
    /\ Len(Boards) = 2
    /\ Len(delivered.Scenarios) = 1
    /\ resolved[<<"root">>] = resolved[<<"root", ".", "scenarios", ".", "index">>]
    /\ Len(Writes) = 2
    /\ Writes[1].path = Writes[2].path
    /\ Writes[1].bytes.board = <<"index">>
    /\ disk[Writes[1].path] = Writes[2].bytes
    /\ Writes[2].bytes.board = <<>>

-----------------------------------------------------------------------------
(* Removal of a board's folder *)

\* The file or call path f lies in the directory dir.
Under(dir, f) == IsPrefix(dir \o <<"/">>, f)

-----------------------------------------------------------------------------
(* Rewritten links and written files *)

\* A non-animated render of several boards to files that succeeded.
MultiboardRendered ==
    /\ RenderedNotAnimated
    /\ HasChildren(delivered)
    /\ args.outputPath # <<"-">>

\* C26: after a successful non-animated multi-board render to files, every
\* value of the resolveLinks map (every path a shape link can have been
\* rewritten to) is the path of a file written during that render.
C26_ResolvedPathsWritten ==
    MultiboardRendered =>
        \A id \in DOMAIN resolved :
            /\ \E w \in CallsOf("ms.WritePath") : log[w].path = resolved[id]
            /\ resolved[id] \in DOMAIN disk

\* A folder-only root with one layer: the layer's link to root was
\* rewritten to the root's index file, which render never wrote.
C26_LinkToUnwrittenIndex ==
    /\ MultiboardRendered
    /\ delivered.IsFolderOnly
    /\ Len(Boards) = 2
    /\ Len(diagram.Layers) = 1
    /\ delivered.Layers[1].Shapes[2].Link = <<"root">>
    /\ diagram.Layers[1].Shapes[2].Link = resolved[<<"root">>]
    /\ resolved[<<"root">>] \notin DOMAIN disk
    /\ \A w \in CallsOf("ms.WritePath") : log[w].path # resolved[<<"root">>]
    /\ Len(Writes) = 1

-----------------------------------------------------------------------------
(* The artifact of an animated render *)

\* compile was called with an animate interval greater than 0 on a tree
\* with a board that is not folder-only, and returned no error.
AnimatedSucceeded ==
    /\ AnimatedRun
    /\ ret.compileErr = ""
    /\ Len(ContentBoards) >= 1

\* C27: whenever compile is called with an animate interval greater than 0
\* on a tree that has at least one non-folder-only board and returns no
\* error, the merge step was invoked with the buffers of all non-folder-only
\* boards and the merged artifact was written to the requested output path.
C27_AnimatedArtifactExists ==
    AnimatedSucceeded =>
        LET outputPath == Run_outputPath(args.outputPath)
        IN  /\ \E m \in CallsOf("d2animate.Wrap") :
                 /\ Len(log[m].bytes) = Len(ContentBoards)
                 /\ \A k \in 1..Len(ContentBoards) :
                      log[m].bytes[k].board = ContentBoards[k].board.Name
            /\ \E w \in CallsOf("ms.WritePath") : log[w].path = outputPath
            /\ outputPath # <<"-">> => outputPath \in DOMAIN disk

\* An animated render of a folder-only root with two layers: both layers
\* were rendered, compile returned no error and reported the output as
\* written, and neither the merge step nor any write took place.
C27_NothingMerged ==
    /\ AnimatedSucceeded
    /\ delivered.IsFolderOnly
    /\ Len(ContentBoards) = 2
    /\ Cardinality(CallsOf("d2svg.Render")) = 2
    /\ ret.written
    /\ ret.out = NoBytes
    /\ CallsOf("d2animate.Wrap") = {}
    /\ CallsOf("ms.WritePath") = {}
    /\ args.outputPath # <<"-">>
    /\ Run_outputPath(args.outputPath) \notin DOMAIN disk

====
